---- MODULE Spec2Model ----
(***************************************************************************)
(* A model of the release-notes compiler of octue/pre-commit-hooks         *)
(* (src/conventional_commits/compile_release_notes.py).                    *)
(*                                                                         *)
(* Python strings are TLA+ strings; TLC evaluates Len, \o, SubSeq, Head    *)
(* and Tail on them, so every string function of the program is computed   *)
(* character by character as the interpreter computes it.  An optional     *)
(* value (None or a string) is a sequence of length 0 or 1.                *)
(***************************************************************************)
EXTENDS Naturals, Sequences, FiniteSets

VARIABLES
    description,        \* body of the pull request at the remote: <<>> is None, <<s>> a string
    git_log,            \* the bytes git prints for the decorated one-line log, the stdout of _get_git_log
    pc,                 \* "new", "constructed", "returned" or "raised"
    error,              \* the exception raised, "" when none
    stop_point,         \* self.stop_point
    previous_notes,     \* self.previous_notes: <<>> is None, <<s>> a string
    header,             \* self.header
    list_item_symbol,   \* self.list_item_symbol
    mapping,            \* self.commit_codes_to_headings_mapping, an ordered sequence of <<code, heading>>
    parsed_commits,     \* local of compile_release_notes, as left by the last call
    unparsed_commits,   \* local of compile_release_notes, as left by the last call
    categorised_commit_messages,  \* local of compile_release_notes, as left by the last call: an ordered sequence of <<heading, messages>>
    autogenerated,      \* autogenerated_release_notes of the last call: <<>> when not built
    result,             \* value returned by compile_release_notes: <<>> when nothing was returned
    calls,              \* collaborators invoked in this run, in order
    last_output,        \* value returned by the previous run: <<>> when there was none
    runs                \* number of runs started so far

vars == <<description, git_log, pc, error, stop_point, previous_notes, header,
          list_item_symbol, mapping, parsed_commits, unparsed_commits,
          categorised_commit_messages, autogenerated, result, calls, last_output, runs>>

(***************************************************************************)
(* Program constants.                                                      *)
(***************************************************************************)
LAST_RELEASE == "LAST_RELEASE"
LAST_PULL_REQUEST == "LAST_PULL_REQUEST"
PULL_REQUEST_INDICATOR == "Merge pull request #"
SEMVER_TAG_PREFIX == "tag: "

COMMIT_CODES_TO_HEADINGS_MAPPING ==
    << <<"FEA", "### New features">>,
       <<"ENH", "### Enhancements">>,
       <<"FIX", "### Fixes">>,
       <<"OPS", "### Operations">>,
       <<"DEP", "### Dependencies">>,
       <<"REF", "### Refactoring">>,
       <<"TST", "### Testing">>,
       <<"MRG", "### Other">>,
       <<"REV", "### Reversions">>,
       <<"CHO", "### Chores">>,
       <<"WIP", "### Other">>,
       <<"DOC", "### Other">>,
       <<"STY", "### Other">> >>

AUTO_GENERATION_START_INDICATOR == "<!--- START AUTOGENERATED NOTES --->"
AUTO_GENERATION_END_INDICATOR == "<!--- END AUTOGENERATED NOTES --->"
SKIP_INDICATOR == "<!--- SKIP AUTOGENERATED NOTES --->"

DEFAULT_HEADER == "## Contents"
DEFAULT_LIST_ITEM_SYMBOL == "- [x] "
OTHER_HEADING == "### Other"
UNCATEGORISED_HEADING == "### Uncategorised!"

(***************************************************************************)
(* The string methods of Python the program uses.                          *)
(***************************************************************************)
CharAt(s, i) == SubSeq(s, i, i)

\* s.startswith(pat, i - 1): pat occurs in s at the 1-based position i.
OccursAt(s, pat, i) ==
    /\ i >= 1
    /\ i + Len(pat) - 1 <= Len(s)
    /\ SubSeq(s, i, i + Len(pat) - 1) = pat

\* The least element of a non-empty set of numbers.
Min(S) == CHOOSE i \in S : \A j \in S : i <= j

\* s.find(pat, from - 1) + 1: the lowest position >= from where pat occurs, 0 when none.
Find(s, pat, from) ==
    LET found == {i \in from..(Len(s) - Len(pat) + 1) : OccursAt(s, pat, i)}
    IN IF found = {} THEN 0 ELSE Min(found)

\* pat in s
Contains(s, pat) == Find(s, pat, 1) # 0

\* s.split(sep) for a non-empty separator: the pieces between the
\* non-overlapping occurrences of sep, found left to right.
RECURSIVE Split(_, _)
Split(s, sep) ==
    LET i == Find(s, sep, 1) IN
    IF i = 0 THEN <<s>>
    ELSE <<SubSeq(s, 1, i - 1)>> \o Split(SubSeq(s, i + Len(sep), Len(s)), sep)

\* sep.join(parts)
RECURSIVE Join(_, _)
Join(sep, parts) ==
    IF parts = <<>> THEN ""
    ELSE IF Len(parts) = 1 THEN parts[1]
    ELSE parts[1] \o sep \o Join(sep, Tail(parts))

\* The greatest element of a non-empty set of numbers.
Max(S) == CHOOSE i \in S : \A j \in S : i >= j

\* The positions of s that hold a character outside chars.
Kept(s, chars) == {i \in 1..Len(s) : CharAt(s, i) \notin chars}

\* s.lstrip(chars)
LStrip(s, chars) ==
    IF Kept(s, chars) = {} THEN "" ELSE SubSeq(s, Min(Kept(s, chars)), Len(s))

\* s.rstrip(chars)
RStrip(s, chars) ==
    IF Kept(s, chars) = {} THEN "" ELSE SubSeq(s, 1, Max(Kept(s, chars)))

\* s.strip(chars)
Strip(s, chars) == RStrip(LStrip(s, chars), chars)

\* A string of the model can hold the characters U+0001 to U+00FF but the
\* grave accent, and of those from U+0100 to U+FFFF the ones whose number
\* ends in a byte of 80 to FF (hexadecimal), surrogates apart.  The tables
\* of characters below are those of Python among these characters.

\* The characters s.strip() removes from a str, those of str.isspace: the
\* space, tab, line feed, carriage return, form feed, vertical tab (U+000B),
\* the four separators U+001C to U+001F, next line (U+0085), the no-break
\* space (U+00A0) and the ogham space mark (U+1680).
Whitespace ==
    {" ", "\t", "\n", "\r", "\f", "", "", "", "", "", "", " ",
     " "}

\* The bytes b.strip() removes from a bytes value: the ASCII white space
\* (space, tab, line feed, carriage return, form feed, vertical tab).
BytesWhitespace == {" ", "\t", "\n", "\r", "\f", ""}

\* s.strip()
StripWs(s) == Strip(s, Whitespace)

\* The line boundaries of s.splitlines() of a str: line
\* feed, carriage return, form feed, vertical tab (U+000B), the separators
\* U+001C to U+001E and next line (U+0085).
LineBreaks == {"\n", "\r", "\f", "", "", "", "", ""}

\* Position of the first line boundary of s at or after i, 0 when none.
NextBreak(s, i) ==
    LET breaks == {k \in i..Len(s) : CharAt(s, k) \in LineBreaks}
    IN IF breaks = {} THEN 0 ELSE Min(breaks)

\* s.splitlines(): "\r\n" is one boundary, and no empty last line is produced.
RECURSIVE SplitLines(_)
SplitLines(s) ==
    IF s = "" THEN <<>>
    ELSE LET b == NextBreak(s, 1) IN
         IF b = 0 THEN <<s>>
         ELSE LET w == IF CharAt(s, b) = "\r" /\ OccursAt(s, "\n", b + 1) THEN 2 ELSE 1
              IN <<SubSeq(s, 1, b - 1)>> \o SplitLines(SubSeq(s, b + w, Len(s)))

LowerCase == "abcdefghijklmnopqrstuvwxyz"
UpperCase == "ABCDEFGHIJKLMNOPQRSTUVWXYZ"

\* The characters beyond ASCII that upper() changes into one character,
\* and these capitals in the same order.
OtherLowerCase == "µàáâãäåæçèéêëìíîïðñòóôõöøùúûüýþƃƅƈƌƒƕƙơƣƥƨƭưƴƶƹƽƿǅǆǈǉǋǌǎǐǒǔǖǘǚǜǝǟǡǣǥǧǩǫǭǯǲǳǵǹǻǽǿʀʂʃʇʈʊʋʒʝʞάέήίαβγδεζηθικλμνξοπρςστυφχψωϊϋόύώϐϑϕϖϗϙϛϝϟϡϣϥϧϩϫϭϯϰϱϲϵϸϻҁҋҍҏґғҕҗҙқҝҟҡңҥҧҩҫҭүұҳҵҷҹһҽҿӂӄӆӈӊӌӎӏӑӓӕӗәӛӝӟӡӣӥӧөӫӭӯӱӳӵӷӹӻӽӿაბგდევზთიკლმნოპჟრსტუფქღყშჩცძწჭხჯჰჱჲჳჴჵჶჷჸჹჺჽჾჿᏸᏹᏺᏻᏼᏽᶎẁẃẅẇẉẋẍẏẑẓẕạảấầẩẫậắằẳẵặẹẻẽếềểễệỉịọỏốồổỗộớờởỡợụủứừửữựỳỵỷỹỻỽỿᾰᾱιῐῑῠῡῥↄⓐⓑⓒⓓⓔⓕⓖⓗⓘⓙⓚⓛⓜⓝⓞⓟⓠⓡⓢⓣⓤⓥⓦⓧⓨⓩⲁⲃⲅⲇⲉⲋⲍⲏⲑⲓⲕⲗⲙⲛⲝⲟⲡⲣⲥⲧⲩⲫⲭⲯⲱⲳⲵⲷⲹⲻⲽⲿⳁⳃⳅⳇⳉⳋⳍⳏⳑⳓⳕⳗⳙⳛⳝⳟⳡⳣⳬⳮⳳꚁꚃꚅꚇꚉꚋꚍꚏꚑꚓꚕꚗꚙꚛꞁꞃꞅꞇꞌꞑꞓꞔꞗꞙꞛꞝꞟꞡꞣꞥꞧꞩꞵꞷꞹꞻꞽꞿꟁꟃꟈꟊꟑꟗꟙꟶꮀꮁꮂꮃꮄꮅꮆꮇꮈꮉꮊꮋꮌꮍꮎꮏꮐꮑꮒꮓꮔꮕꮖꮗꮘꮙꮚꮛꮜꮝꮞꮟꮠꮡꮢꮣꮤꮥꮦꮧꮨꮩꮪꮫꮬꮭꮮꮯꮰꮱꮲꮳꮴꮵꮶꮷꮸꮹꮺꮻꮼꮽꮾꮿ"
OtherUpperCase == "ΜÀÁÂÃÄÅÆÇÈÉÊËÌÍÎÏÐÑÒÓÔÕÖØÙÚÛÜÝÞƂƄƇƋƑǶƘƠƢƤƧƬƯƳƵƸƼǷǄǄǇǇǊǊǍǏǑǓǕǗǙǛƎǞǠǢǤǦǨǪǬǮǱǱǴǸǺǼǾƦꟅƩꞱƮƱƲƷꞲꞰΆΈΉΊΑΒΓΔΕΖΗΘΙΚΛΜΝΞΟΠΡΣΣΤΥΦΧΨΩΪΫΌΎΏΒΘΦΠϏϘϚϜϞϠϢϤϦϨϪϬϮΚΡϹΕϷϺҀҊҌҎҐҒҔҖҘҚҜҞҠҢҤҦҨҪҬҮҰҲҴҶҸҺҼҾӁӃӅӇӉӋӍӀӐӒӔӖӘӚӜӞӠӢӤӦӨӪӬӮӰӲӴӶӸӺӼӾᲐᲑᲒᲓᲔᲕᲖᲗᲘᲙᲚᲛᲜᲝᲞᲟᲠᲡᲢᲣᲤᲥᲦᲧᲨᲩᲪᲫᲬᲭᲮᲯᲰᲱᲲᲳᲴᲵᲶᲷᲸᲹᲺᲽᲾᲿᏰᏱᏲᏳᏴᏵꟆẀẂẄẆẈẊẌẎẐẒẔẠẢẤẦẨẪẬẮẰẲẴẶẸẺẼẾỀỂỄỆỈỊỌỎỐỒỔỖỘỚỜỞỠỢỤỦỨỪỬỮỰỲỴỶỸỺỼỾᾸᾹΙῘῙῨῩῬↃⒶⒷⒸⒹⒺⒻⒼⒽⒾⒿⓀⓁⓂⓃⓄⓅⓆⓇⓈⓉⓊⓋⓌⓍⓎⓏⲀⲂⲄⲆⲈⲊⲌⲎⲐⲒⲔⲖⲘⲚⲜⲞⲠⲢⲤⲦⲨⲪⲬⲮⲰⲲⲴⲶⲸⲺⲼⲾⳀⳂⳄⳆⳈⳊⳌⳎⳐⳒⳔⳖⳘⳚⳜⳞⳠⳢⳫⳭⳲꚀꚂꚄꚆꚈꚊꚌꚎꚐꚒꚔꚖꚘꚚꞀꞂꞄꞆꞋꞐꞒꟄꞖꞘꞚꞜꞞꞠꞢꞤꞦꞨꞴꞶꞸꞺꞼꞾꟀꟂꟇꟉꟐꟖꟘꟵᎰᎱᎲᎳᎴᎵᎶᎷᎸᎹᎺᎻᎼᎽᎾᎿᏀᏁᏂᏃᏄᏅᏆᏇᏈᏉᏊᏋᏌᏍᏎᏏᏐᏑᏒᏓᏔᏕᏖᏗᏘᏙᏚᏛᏜᏝᏞᏟᏠᏡᏢᏣᏤᏥᏦᏧᏨᏩᏪᏫᏬᏭᏮᏯ"

\* The characters that upper() changes into several characters.
ExpandingUpper ==
    <<<<"ß", "SS">>,
      <<"ẚ", "Aʾ">>,
      <<"ᾲ", "ᾺΙ">>,
      <<"ᾳ", "ΑΙ">>,
      <<"ᾴ", "ΆΙ">>,
      <<"ᾼ", "ΑΙ">>,
      <<"ῂ", "ῊΙ">>,
      <<"ῃ", "ΗΙ">>,
      <<"ῄ", "ΉΙ">>,
      <<"ῌ", "ΗΙ">>,
      <<"ῲ", "ῺΙ">>,
      <<"ῳ", "ΩΙ">>,
      <<"ῴ", "ΏΙ">>,
      <<"ῼ", "ΩΙ">>>>

\* The characters whose upper-case form holds a character that a string of
\* the model cannot hold.
CapitalNotHeldChars == "ÿƀƚƞǰʉʌΐΰϳրցւփքօֆևᲀᲁᲂᲃᲄᲅᲆᲇᲈẖẗẘẙẛᾀᾁᾂᾃᾄᾅᾆᾇᾈᾉᾊᾋᾌᾍᾎᾏᾐᾑᾒᾓᾔᾕᾖᾗᾘᾙᾚᾛᾜᾝᾞᾟᾠᾡᾢᾣᾤᾥᾦᾧᾨᾩᾪᾫᾬᾭᾮᾯᾶᾷῆῇῒΐῖῗῢΰῤῦῧῶῷ"

\* The characters of the string s.
CharsOf(s) == {CharAt(s, i) : i \in 1..Len(s)}

CapitalNotHeld == CharsOf(CapitalNotHeldChars)

LowerCaseSet == CharsOf(LowerCase)
OtherLowerCaseSet == CharsOf(OtherLowerCase)

\* The upper-case form of each character that upper() changes, where a
\* string of the model can hold it.
UpperOf ==
    [c \in LowerCaseSet \cup OtherLowerCaseSet
            \cup {ExpandingUpper[i][1] : i \in 1..Len(ExpandingUpper)} |->
        IF c \in LowerCaseSet THEN CharAt(UpperCase, Find(LowerCase, c, 1))
        ELSE IF c \in OtherLowerCaseSet
             THEN CharAt(OtherUpperCase, Find(OtherLowerCase, c, 1))
        ELSE ExpandingUpper[CHOOSE i \in 1..Len(ExpandingUpper) :
                               ExpandingUpper[i][1] = c][2]]

\* c.upper() of one character: a character out of the table is left as it
\* is.  The value is not defined for the characters of CapitalNotHeld.
UpperChar(c) ==
    IF c \in DOMAIN UpperOf THEN UpperOf[c]
    ELSE IF c \in CapitalNotHeld THEN CHOOSE capital \in {} : TRUE
    ELSE c

\* As Upper, but leaving the letters as they are.
UpperForgotten(s) == s

\* s.upper()
RECURSIVE Upper(_)
Upper(s) == IF s = "" THEN "" ELSE UpperChar(CharAt(s, 1)) \o Upper(Tail(s))

\* The characters \d of a str pattern matches: the decimal digits of every
\* script.
DecimalDigits == "0123456789۰۱۲۳۴۵۶۷۸۹߀߁߂߃߄߅߆߇߈߉০১২৩৪৫৬৭৮৯૦૧૨૩૪૫૬૭૮૯௦௧௨௩௪௫௬௭௮௯೦೧೨೩೪೫೬೭೮೯෦෧෨෩෪෫෬෭෮෯໐໑໒໓໔໕໖໗໘໙႐႑႒႓႔႕႖႗႘႙០១២៣៤៥៦៧៨៩᧐᧑᧒᧓᧔᧕᧖᧗᧘᧙᪀᪁᪂᪃᪄᪅᪆᪇᪈᪉᪐᪑᪒᪓᪔᪕᪖᪗᪘᪙᮰᮱᮲᮳᮴᮵᮶᮷᮸᮹꣐꣑꣒꣓꣔꣕꣖꣗꣘꣙꧐꧑꧒꧓꧔꧕꧖꧗꧘꧙꧰꧱꧲꧳꧴꧵꧶꧷꧸꧹꯰꯱꯲꯳꯴꯵꯶꯷꯸꯹"

Digits == CharsOf(DecimalDigits)

\* Position after the longest run of digits of s that starts at i.
RECURSIVE SkipDigits(_, _)
SkipDigits(s, i) ==
    IF i <= Len(s) /\ CharAt(s, i) \in Digits THEN SkipDigits(s, i + 1) ELSE i

\* SEMANTIC_VERSION_PATTERN.match(s, i - 1): "tag: ", digits, ".", digits, ".", digits.
SemverMatchAt(s, i) ==
    /\ OccursAt(s, SEMVER_TAG_PREFIX, i)
    /\ LET a == i + Len(SEMVER_TAG_PREFIX)
           b == SkipDigits(s, a)
           c == SkipDigits(s, b + 1)
       IN /\ b > a
          /\ OccursAt(s, ".", b)
          /\ c > b + 1
          /\ OccursAt(s, ".", c)
          /\ SkipDigits(s, c + 1) > c + 1

\* bool(SEMANTIC_VERSION_PATTERN.search(s))
SemverSearch(s) == \E i \in 1..Len(s) : SemverMatchAt(s, i)

(***************************************************************************)
(* The methods of ReleaseNoteCompiler.                                     *)
(***************************************************************************)
None == <<>>
Some(s) == <<s>>

\* bool(x) of an optional string: None and "" are false.
Truthy(opt) == opt # None /\ opt[1] # ""

\* As IsStopPoint, but taking any tag for a release.
IsStopPointAnyTag(sp, message, decoration) ==
    IF sp = LAST_RELEASE /\ Contains(decoration, "tag")
    THEN TRUE
    ELSE IF sp = LAST_PULL_REQUEST
         THEN Contains(message, PULL_REQUEST_INDICATOR)
         ELSE FALSE

\* As IsStopPoint, but looking for a release tag under either stop point.
IsStopPointAlwaysTag(sp, message, decoration) ==
    IF Contains(decoration, "tag")
    THEN SemverSearch(decoration)
    ELSE IF sp = LAST_PULL_REQUEST
         THEN Contains(message, PULL_REQUEST_INDICATOR)
         ELSE FALSE

\* _is_stop_point: a call that falls off the end returns None, which is false.
IsStopPoint(sp, message, decoration) ==
    IF sp = LAST_RELEASE /\ Contains(decoration, "tag")
    THEN SemverSearch(decoration)
    ELSE IF sp = LAST_PULL_REQUEST
         THEN Contains(message, PULL_REQUEST_INDICATOR)
         ELSE FALSE

\* As ParsedCommit, but taking the text between the first two colons for
\* the message.
ParsedCommitOneColon(message, decoration) ==
    LET parts == Split(message, ":") IN
    <<StripWs(parts[1]), StripWs(parts[2]), StripWs(decoration)>>

\* code, *message = message.split(":"); message = ":".join(message);
\* the tuple appended to parsed_commits.
ParsedCommit(message, decoration) ==
    LET parts == Split(message, ":") IN
    <<StripWs(parts[1]), StripWs(Join(":", Tail(parts))), StripWs(decoration)>>

\* As ParseLoop, but going on with the next line at the stop point.
RECURSIVE ParseLoopSkipping(_, _, _, _)
ParseLoopSkipping(sp, lines, i, acc) ==
    IF i > Len(lines) THEN acc
    ELSE LET split_commit == Split(lines[i], "|") IN
         IF Len(split_commit) # 2 THEN ParseLoopSkipping(sp, lines, i + 1, acc)
         ELSE LET message == split_commit[1]
                  decoration == split_commit[2]
              IN IF IsStopPoint(sp, message, decoration)
                 THEN ParseLoopSkipping(sp, lines, i + 1, acc)
                 ELSE IF ~Contains(message, ":")
                      THEN ParseLoopSkipping(sp, lines, i + 1,
                               [acc EXCEPT !.unparsed = Append(@, StripWs(message))])
                      ELSE ParseLoopSkipping(sp, lines, i + 1,
                               [acc EXCEPT !.parsed = Append(@, ParsedCommit(message, decoration))])

\* As ParseLoop, but looking for the colon before the stop point.
RECURSIVE ParseLoopColonFirst(_, _, _, _)
ParseLoopColonFirst(sp, lines, i, acc) ==
    IF i > Len(lines) THEN acc
    ELSE LET split_commit == Split(lines[i], "|") IN
         IF Len(split_commit) # 2 THEN ParseLoopColonFirst(sp, lines, i + 1, acc)
         ELSE LET message == split_commit[1]
                  decoration == split_commit[2]
              IN IF ~Contains(message, ":")
                 THEN ParseLoopColonFirst(sp, lines, i + 1,
                          [acc EXCEPT !.unparsed = Append(@, StripWs(message))])
                 ELSE IF IsStopPoint(sp, message, decoration) THEN acc
                      ELSE ParseLoopColonFirst(sp, lines, i + 1,
                               [acc EXCEPT !.parsed = Append(@, ParsedCommit(message, decoration))])

\* As ParseLoop, but taking the first two parts of a line that splits into
\* more than two.
RECURSIVE ParseLoopTakingTwo(_, _, _, _)
ParseLoopTakingTwo(sp, lines, i, acc) ==
    IF i > Len(lines) THEN acc
    ELSE LET split_commit == Split(lines[i], "|") IN
         IF Len(split_commit) < 2 THEN ParseLoopTakingTwo(sp, lines, i + 1, acc)
         ELSE LET message == split_commit[1]
                  decoration == split_commit[2]
              IN IF IsStopPoint(sp, message, decoration) THEN acc
                 ELSE IF ~Contains(message, ":")
                      THEN ParseLoopTakingTwo(sp, lines, i + 1,
                               [acc EXCEPT !.unparsed = Append(@, StripWs(message))])
                      ELSE ParseLoopTakingTwo(sp, lines, i + 1,
                               [acc EXCEPT !.parsed = Append(@, ParsedCommit(message, decoration))])

\* The loop of _parse_commit_messages from line i of lines on; acc holds
\* parsed_commits and unparsed_commits.
RECURSIVE ParseLoop(_, _, _, _)
ParseLoop(sp, lines, i, acc) ==
    IF i > Len(lines) THEN acc
    ELSE LET split_commit == Split(lines[i], "|") IN
         IF Len(split_commit) # 2 THEN ParseLoop(sp, lines, i + 1, acc)
         ELSE LET message == split_commit[1]
                  decoration == split_commit[2]
              IN IF IsStopPoint(sp, message, decoration) THEN acc
                 ELSE IF ~Contains(message, ":")
                      THEN ParseLoop(sp, lines, i + 1,
                               [acc EXCEPT !.unparsed = Append(@, StripWs(message))])
                      ELSE ParseLoop(sp, lines, i + 1,
                               [acc EXCEPT !.parsed = Append(@, ParsedCommit(message, decoration))])

\* _parse_commit_messages
ParseCommitMessages(sp, formatted_oneline_git_log) ==
    ParseLoop(sp, SplitLines(formatted_oneline_git_log), 1,
              [parsed |-> <<>>, unparsed |-> <<>>])

\* Position of key among the keys of an ordered dict d (a sequence of
\* <<key, value>>), 0 when it is not a key.
KeyIndex(d, key) ==
    IF \E i \in 1..Len(d) : d[i][1] = key
    THEN CHOOSE i \in 1..Len(d) : d[i][1] = key /\ \A j \in 1..(i - 1) : d[j][1] # key
    ELSE 0

\* As DictSet, but moving an existing key to the last position.
DictSetMovingLast(d, key, value) ==
    Append(SelectSeq(d, LAMBDA item : item[1] # key), <<key, value>>)

\* d[key] = value: an existing key keeps its position, a new key goes last.
DictSet(d, key, value) ==
    LET i == KeyIndex(d, key) IN
    IF i = 0 THEN Append(d, <<key, value>>) ELSE [d EXCEPT ![i] = <<key, value>>]

\* {heading: [] for heading in mapping.values()}
RECURSIVE EmptySections(_, _, _)
EmptySections(m, i, acc) ==
    IF i > Len(m) THEN acc
    ELSE EmptySections(m, i + 1, DictSet(acc, m[i][2], <<>>))

\* As CategoriseLoop, but putting each message first in its section.
RECURSIVE CategoriseLoopPrepending(_, _, _, _)
CategoriseLoopPrepending(m, parsed, i, acc) ==
    IF i > Len(parsed) \/ acc.raised THEN acc
    ELSE LET k == KeyIndex(m, parsed[i][1])
             heading == IF k = 0 THEN OTHER_HEADING ELSE m[k][2]
             h == KeyIndex(acc.notes, heading)
         IN IF h = 0
            THEN [acc EXCEPT !.raised = TRUE]
            ELSE CategoriseLoopPrepending(m, parsed, i + 1,
                     [acc EXCEPT !.notes[h][2] = <<parsed[i][2]>> \o @])

\* The loop over parsed_commits of _categorise_commit_messages: acc.raised is
\* set when release_notes["### Other"] raises KeyError inside the handler.
RECURSIVE CategoriseLoop(_, _, _, _)
CategoriseLoop(m, parsed, i, acc) ==
    IF i > Len(parsed) \/ acc.raised THEN acc
    ELSE LET k == KeyIndex(m, parsed[i][1])
             heading == IF k = 0 THEN OTHER_HEADING ELSE m[k][2]
             h == KeyIndex(acc.notes, heading)
         IN IF h = 0
            THEN [acc EXCEPT !.raised = TRUE]
            ELSE CategoriseLoop(m, parsed, i + 1,
                     [acc EXCEPT !.notes[h][2] = Append(@, parsed[i][2])])

\* As CategoriseCommitMessages, but leaving the unparsed commits out.
CategoriseCommitMessagesParsedOnly(m, parsed, unparsed) ==
    CategoriseLoop(m, parsed, 1, [raised |-> FALSE, notes |-> EmptySections(m, 1, <<>>)])

\* As CategoriseCommitMessages, but with the unparsed commits in the first
\* section.
CategoriseCommitMessagesUnparsedFirst(m, parsed, unparsed) ==
    LET filled == CategoriseLoop(m, parsed, 1,
                      [raised |-> FALSE, notes |-> EmptySections(m, 1, <<>>)])
    IN IF filled.raised THEN filled
       ELSE [filled EXCEPT !.notes = <<<<UNCATEGORISED_HEADING, unparsed>>>> \o @]

\* _categorise_commit_messages
CategoriseCommitMessages(m, parsed, unparsed) ==
    LET filled == CategoriseLoop(m, parsed, 1,
                      [raised |-> FALSE, notes |-> EmptySections(m, 1, <<>>)])
    IN IF filled.raised THEN filled
       ELSE [filled EXCEPT !.notes = DictSet(@, UNCATEGORISED_HEADING, unparsed)]

\* "\n".join(self.list_item_symbol + note for note in notes)
RECURSIVE NoteLines(_, _)
NoteLines(symbol, notes) ==
    IF Len(notes) = 1 THEN symbol \o notes[1]
    ELSE symbol \o notes[1] \o "\n" \o NoteLines(symbol, Tail(notes))

\* As BuildSections, but with the headings of the empty sections too.
RECURSIVE BuildSectionsWithEmpty(_, _, _)
BuildSectionsWithEmpty(symbol, categorised, i) ==
    IF i > Len(categorised) THEN ""
    ELSE (IF Len(categorised[i][2]) = 0 THEN categorised[i][1] \o "\n\n"
          ELSE categorised[i][1] \o "\n" \o NoteLines(symbol, categorised[i][2]) \o "\n\n")
         \o BuildSectionsWithEmpty(symbol, categorised, i + 1)

\* The loop over the sections of _build_release_notes.
RECURSIVE BuildSections(_, _, _)
BuildSections(symbol, categorised, i) ==
    IF i > Len(categorised) THEN ""
    ELSE (IF Len(categorised[i][2]) = 0 THEN ""
          ELSE categorised[i][1] \o "\n" \o NoteLines(symbol, categorised[i][2]) \o "\n\n")
         \o BuildSections(symbol, categorised, i + 1)

\* As BuildReleaseNotes, but ending the notes with a line break.
BuildReleaseNotesEndingLine(hdr, symbol, categorised) ==
    AUTO_GENERATION_START_INDICATOR \o "\n" \o hdr \o "\n\n"
        \o BuildSections(symbol, categorised, 1)
        \o AUTO_GENERATION_END_INDICATOR \o "\n"

\* _build_release_notes
BuildReleaseNotes(hdr, symbol, categorised) ==
    AUTO_GENERATION_START_INDICATOR \o "\n" \o hdr \o "\n\n"
        \o BuildSections(symbol, categorised, 1)
        \o AUTO_GENERATION_END_INDICATOR

\* parts[-1]
Last(parts) == parts[Len(parts)]

\* As AfterGeneratedSection, but keeping what precedes the end indicator.
AfterGeneratedSectionFirstPart(before) ==
    Split(Join("", Tail(before)), AUTO_GENERATION_END_INDICATOR)[1]

\* The text after the autogenerated section of the previous notes:
\* "".join(before[1:]).split(END)[-1]
AfterGeneratedSection(before) ==
    Last(Split(Join("", Tail(before)), AUTO_GENERATION_END_INDICATOR))

\* As SkipRequested, but never skipping.
SkipRequestedNever(previous) == FALSE

\* As SkipRequested, but looking for the indicator at the end only.
SkipRequestedAtEnd(previous) ==
    /\ Truthy(previous)
    /\ OccursAt(previous[1], SKIP_INDICATOR, Len(previous[1]) - Len(SKIP_INDICATOR) + 1)

\* The characters from U+0080 on that a string of the model can hold, in
\* the order of their numbers: 128 of each of the 248 pages of 256
\* characters that are not pages of surrogates.
HighChars == " ¡¢£¤¥¦§¨©ª«¬­®¯°±²³´µ¶·¸¹º»¼½¾¿ÀÁÂÃÄÅÆÇÈÉÊËÌÍÎÏÐÑÒÓÔÕÖ×ØÙÚÛÜÝÞßàáâãäåæçèéêëìíîïðñòóôõö÷øùúûüýþÿƀƁƂƃƄƅƆƇƈƉƊƋƌƍƎƏƐƑƒƓƔƕƖƗƘƙƚƛƜƝƞƟƠơƢƣƤƥƦƧƨƩƪƫƬƭƮƯưƱƲƳƴƵƶƷƸƹƺƻƼƽƾƿǀǁǂǃǄǅǆǇǈǉǊǋǌǍǎǏǐǑǒǓǔǕǖǗǘǙǚǛǜǝǞǟǠǡǢǣǤǥǦǧǨǩǪǫǬǭǮǯǰǱǲǳǴǵǶǷǸǹǺǻǼǽǾǿʀʁʂʃʄʅʆʇʈʉʊʋʌʍʎʏʐʑʒʓʔʕʖʗʘʙʚʛʜʝʞʟʠʡʢʣʤʥʦʧʨʩʪʫʬʭʮʯʰʱʲʳʴʵʶʷʸʹʺʻʼʽʾʿˀˁ˂˃˄˅ˆˇˈˉˊˋˌˍˎˏːˑ˒˓˔˕˖˗˘˙˚˛˜˝˞˟ˠˡˢˣˤ˥˦˧˨˩˪˫ˬ˭ˮ˯˰˱˲˳˴˵˶˷˸˹˺˻˼˽˾˿΀΁΂΃΄΅Ά·ΈΉΊ΋Ό΍ΎΏΐΑΒΓΔΕΖΗΘΙΚΛΜΝΞΟΠΡ΢ΣΤΥΦΧΨΩΪΫάέήίΰαβγδεζηθικλμνξοπρςστυφχψωϊϋόύώϏϐϑϒϓϔϕϖϗϘϙϚϛϜϝϞϟϠϡϢϣϤϥϦϧϨϩϪϫϬϭϮϯϰϱϲϳϴϵ϶ϷϸϹϺϻϼϽϾϿҀҁ҂҃҄҅҆҇҈҉ҊҋҌҍҎҏҐґҒғҔҕҖҗҘҙҚқҜҝҞҟҠҡҢңҤҥҦҧҨҩҪҫҬҭҮүҰұҲҳҴҵҶҷҸҹҺһҼҽҾҿӀӁӂӃӄӅӆӇӈӉӊӋӌӍӎӏӐӑӒӓӔӕӖӗӘәӚӛӜӝӞӟӠӡӢӣӤӥӦӧӨөӪӫӬӭӮӯӰӱӲӳӴӵӶӷӸӹӺӻӼӽӾӿրցւփքօֆևֈ։֊֋֌֍֎֏֐ְֱֲֳִֵֶַָֹֺֻּֽ֑֖֛֢֣֤֥֦֧֪֚֭֮֒֓֔֕֗֘֙֜֝֞֟֠֡֨֩֫֬֯־ֿ׀ׁׂ׃ׅׄ׆ׇ׈׉׊׋׌׍׎׏אבגדהוזחטיךכלםמןנסעףפץצקרשת׫׬׭׮ׯװױײ׳״׵׶׷׸׹׺׻׼׽׾׿ڀځڂڃڄڅچڇڈډڊڋڌڍڎڏڐڑڒړڔڕږڗژڙښڛڜڝڞڟڠڡڢڣڤڥڦڧڨکڪګڬڭڮگڰڱڲڳڴڵڶڷڸڹںڻڼڽھڿۀہۂۃۄۅۆۇۈۉۊۋیۍێۏېۑےۓ۔ەۖۗۘۙۚۛۜ۝۞ۣ۟۠ۡۢۤۥۦۧۨ۩۪ۭ۫۬ۮۯ۰۱۲۳۴۵۶۷۸۹ۺۻۼ۽۾ۿހށނރބޅކއވމފދތލގޏސޑޒޓޔޕޖޗޘޙޚޛޜޝޞޟޠޡޢޣޤޥަާިީުޫެޭޮޯްޱ޲޳޴޵޶޷޸޹޺޻޼޽޾޿߀߁߂߃߄߅߆߇߈߉ߊߋߌߍߎߏߐߑߒߓߔߕߖߗߘߙߚߛߜߝߞߟߠߡߢߣߤߥߦߧߨߩߪ߲߫߬߭߮߯߰߱߳ߴߵ߶߷߸߹ߺ߻߼߽߾߿ࢀࢁࢂࢃࢄࢅࢆࢇ࢈ࢉࢊࢋࢌࢍࢎ࢏࢐࢑࢒࢓࢔࢕࢖࢙࢚࢛ࢗ࢘࢜࢝࢞࢟ࢠࢡࢢࢣࢤࢥࢦࢧࢨࢩࢪࢫࢬࢭࢮࢯࢰࢱࢲࢳࢴࢵࢶࢷࢸࢹࢺࢻࢼࢽࢾࢿࣀࣁࣂࣃࣄࣅࣆࣇࣈࣉ࣏࣐࣑࣒࣓࣊࣋࣌࣍࣎ࣔࣕࣖࣗࣘࣙࣚࣛࣜࣝࣞࣟ࣠࣡࣢ࣰࣱࣲࣣࣦࣩ࣭࣮࣯ࣶࣹࣺࣤࣥࣧࣨ࣪࣫࣬ࣳࣴࣵࣷࣸࣻࣼࣽࣾࣿঀঁংঃ঄অআইঈউঊঋঌ঍঎এঐ঑঒ওঔকখগঘঙচছজঝঞটঠডঢণতথদধন঩পফবভমযর঱ল঳঴঵শষসহ঺঻়ঽািীুূৃৄ৅৆েৈ৉৊োৌ্ৎ৏৐৑৒৓৔৕৖ৗ৘৙৚৛ড়ঢ়৞য়ৠৡৢৣ৤৥০১২৩৪৫৬৭৮৯ৰৱ৲৳৴৵৶৷৸৹৺৻ৼ৽৾৿઀ઁંઃ઄અઆઇઈઉઊઋઌઍ઎એઐઑ઒ઓઔકખગઘઙચછજઝઞટઠડઢણતથદધન઩પફબભમયર઱લળ઴વશષસહ઺઻઼ઽાિીુૂૃૄૅ૆ેૈૉ૊ોૌ્૎૏ૐ૑૒૓૔૕૖૗૘૙૚૛૜૝૞૟ૠૡૢૣ૤૥૦૧૨૩૪૫૬૭૮૯૰૱૲૳૴૵૶૷૸ૹૺૻૼ૽૾૿஀஁ஂஃ஄அஆஇஈஉஊ஋஌஍எஏஐ஑ஒஓஔக஖஗஘ஙச஛ஜ஝ஞட஠஡஢ணத஥஦஧நனப஫஬஭மயரறலளழவஶஷஸஹ஺஻஼஽ாிீுூ௃௄௅ெேை௉ொோௌ்௎௏ௐ௑௒௓௔௕௖ௗ௘௙௚௛௜௝௞௟௠௡௢௣௤௥௦௧௨௩௪௫௬௭௮௯௰௱௲௳௴௵௶௷௸௹௺௻௼௽௾௿ಀಁಂಃ಄ಅಆಇಈಉಊಋಌ಍ಎಏಐ಑ಒಓಔಕಖಗಘಙಚಛಜಝಞಟಠಡಢಣತಥದಧನ಩ಪಫಬಭಮಯರಱಲಳ಴ವಶಷಸಹ಺಻಼ಽಾಿೀುೂೃೄ೅ೆೇೈ೉ೊೋೌ್೎೏೐೑೒೓೔ೕೖ೗೘೙೚೛೜ೝೞ೟ೠೡೢೣ೤೥೦೧೨೩೪೫೬೭೮೯೰ೱೲೳ೴೵೶೷೸೹೺೻೼೽೾೿඀ඁංඃ඄අආඇඈඉඊඋඌඍඎඏඐඑඒඓඔඕඖ඗඘඙කඛගඝඞඟචඡජඣඤඥඦටඨඩඪණඬතථදධන඲ඳපඵබභමඹයර඼ල඾඿වශෂසහළෆ෇෈෉්෋෌෍෎ාැෑිීු෕ූ෗ෘෙේෛොෝෞෟ෠෡෢෣෤෥෦෧෨෩෪෫෬෭෮෯෰෱ෲෳ෴෵෶෷෸෹෺෻෼෽෾෿຀ກຂ຃ຄ຅ຆງຈຉຊ຋ຌຍຎຏຐຑຒຓດຕຖທຘນບປຜຝພຟຠມຢຣ຤ລ຦ວຨຩສຫຬອຮຯະັາຳິີຶື຺ຸູົຼຽ຾຿ເແໂໃໄ໅ໆ໇່້໊໋໌ໍ໎໏໐໑໒໓໔໕໖໗໘໙໚໛ໜໝໞໟ໠໡໢໣໤໥໦໧໨໩໪໫໬໭໮໯໰໱໲໳໴໵໶໷໸໹໺໻໼໽໾໿྄ཱྀྀྂྃ྅྆྇ྈྉྊྋྌྍྎྏྐྑྒྒྷྔྕྖྗ྘ྙྚྛྜྜྷྞྟྠྡྡྷྣྤྥྦྦྷྨྩྪྫྫྷྭྮྯྰྱྲླྴྵྶྷྸྐྵྺྻྼ྽྾྿࿀࿁࿂࿃࿄࿅࿆࿇࿈࿉࿊࿋࿌࿍࿎࿏࿐࿑࿒࿓࿔࿕࿖࿗࿘࿙࿚࿛࿜࿝࿞࿟࿠࿡࿢࿣࿤࿥࿦࿧࿨࿩࿪࿫࿬࿭࿮࿯࿰࿱࿲࿳࿴࿵࿶࿷࿸࿹࿺࿻࿼࿽࿾࿿ႀႁႂႃႄႅႆႇႈႉႊႋႌႍႎႏ႐႑႒႓႔႕႖႗႘႙ႚႛႜႝ႞႟ႠႡႢႣႤႥႦႧႨႩႪႫႬႭႮႯႰႱႲႳႴႵႶႷႸႹႺႻႼႽႾႿჀჁჂჃჄჅ჆Ⴧ჈჉჊჋჌Ⴭ჎჏აბგდევზთიკლმნოპჟრსტუფქღყშჩცძწჭხჯჰჱჲჳჴჵჶჷჸჹჺ჻ჼჽჾჿᆀᆁᆂᆃᆄᆅᆆᆇᆈᆉᆊᆋᆌᆍᆎᆏᆐᆑᆒᆓᆔᆕᆖᆗᆘᆙᆚᆛᆜᆝᆞᆟᆠᆡᆢᆣᆤᆥᆦᆧᆨᆩᆪᆫᆬᆭᆮᆯᆰᆱᆲᆳᆴᆵᆶᆷᆸᆹᆺᆻᆼᆽᆾᆿᇀᇁᇂᇃᇄᇅᇆᇇᇈᇉᇊᇋᇌᇍᇎᇏᇐᇑᇒᇓᇔᇕᇖᇗᇘᇙᇚᇛᇜᇝᇞᇟᇠᇡᇢᇣᇤᇥᇦᇧᇨᇩᇪᇫᇬᇭᇮᇯᇰᇱᇲᇳᇴᇵᇶᇷᇸᇹᇺᇻᇼᇽᇾᇿኀኁኂኃኄኅኆኇኈ኉ኊኋኌኍ኎኏ነኑኒናኔንኖኗኘኙኚኛኜኝኞኟአኡኢኣኤእኦኧከኩኪካኬክኮኯኰ኱ኲኳኴኵ኶኷ኸኹኺኻኼኽኾ኿ዀ዁ዂዃዄዅ዆዇ወዉዊዋዌውዎዏዐዑዒዓዔዕዖ዗ዘዙዚዛዜዝዞዟዠዡዢዣዤዥዦዧየዩዪያዬይዮዯደዱዲዳዴድዶዷዸዹዺዻዼዽዾዿᎀᎁᎂᎃᎄᎅᎆᎇᎈᎉᎊᎋᎌᎍᎎᎏ᎐᎑᎒᎓᎔᎕᎖᎗᎘᎙᎚᎛᎜᎝᎞᎟ᎠᎡᎢᎣᎤᎥᎦᎧᎨᎩᎪᎫᎬᎭᎮᎯᎰᎱᎲᎳᎴᎵᎶᎷᎸᎹᎺᎻᎼᎽᎾᎿᏀᏁᏂᏃᏄᏅᏆᏇᏈᏉᏊᏋᏌᏍᏎᏏᏐᏑᏒᏓᏔᏕᏖᏗᏘᏙᏚᏛᏜᏝᏞᏟᏠᏡᏢᏣᏤᏥᏦᏧᏨᏩᏪᏫᏬᏭᏮᏯᏰᏱᏲᏳᏴᏵ᏶᏷ᏸᏹᏺᏻᏼᏽ᏾᏿ᒀᒁᒂᒃᒄᒅᒆᒇᒈᒉᒊᒋᒌᒍᒎᒏᒐᒑᒒᒓᒔᒕᒖᒗᒘᒙᒚᒛᒜᒝᒞᒟᒠᒡᒢᒣᒤᒥᒦᒧᒨᒩᒪᒫᒬᒭᒮᒯᒰᒱᒲᒳᒴᒵᒶᒷᒸᒹᒺᒻᒼᒽᒾᒿᓀᓁᓂᓃᓄᓅᓆᓇᓈᓉᓊᓋᓌᓍᓎᓏᓐᓑᓒᓓᓔᓕᓖᓗᓘᓙᓚᓛᓜᓝᓞᓟᓠᓡᓢᓣᓤᓥᓦᓧᓨᓩᓪᓫᓬᓭᓮᓯᓰᓱᓲᓳᓴᓵᓶᓷᓸᓹᓺᓻᓼᓽᓾᓿᖀᖁᖂᖃᖄᖅᖆᖇᖈᖉᖊᖋᖌᖍᖎᖏᖐᖑᖒᖓᖔᖕᖖᖗᖘᖙᖚᖛᖜᖝᖞᖟᖠᖡᖢᖣᖤᖥᖦᖧᖨᖩᖪᖫᖬᖭᖮᖯᖰᖱᖲᖳᖴᖵᖶᖷᖸᖹᖺᖻᖼᖽᖾᖿᗀᗁᗂᗃᗄᗅᗆᗇᗈᗉᗊᗋᗌᗍᗎᗏᗐᗑᗒᗓᗔᗕᗖᗗᗘᗙᗚᗛᗜᗝᗞᗟᗠᗡᗢᗣᗤᗥᗦᗧᗨᗩᗪᗫᗬᗭᗮᗯᗰᗱᗲᗳᗴᗵᗶᗷᗸᗹᗺᗻᗼᗽᗾᗿ ᚁᚂᚃᚄᚅᚆᚇᚈᚉᚊᚋᚌᚍᚎᚏᚐᚑᚒᚓᚔᚕᚖᚗᚘᚙᚚ᚛᚜᚝᚞᚟ᚠᚡᚢᚣᚤᚥᚦᚧᚨᚩᚪᚫᚬᚭᚮᚯᚰᚱᚲᚳᚴᚵᚶᚷᚸᚹᚺᚻᚼᚽᚾᚿᛀᛁᛂᛃᛄᛅᛆᛇᛈᛉᛊᛋᛌᛍᛎᛏᛐᛑᛒᛓᛔᛕᛖᛗᛘᛙᛚᛛᛜᛝᛞᛟᛠᛡᛢᛣᛤᛥᛦᛧᛨᛩᛪ᛫᛬᛭ᛮᛯᛰᛱᛲᛳᛴᛵᛶᛷᛸ᛹᛺᛻᛼᛽᛾᛿កខគឃងចឆជឈញដឋឌឍណតថទធនបផពភមយរលវឝឞសហឡអឣឤឥឦឧឨឩឪឫឬឭឮឯឰឱឲឳ឴឵ាិីឹឺុូួើឿៀេែៃោៅំះៈ៉៊់៌៍៎៏័៑្៓។៕៖ៗ៘៙៚៛ៜ៝៞៟០១២៣៤៥៦៧៨៩៪៫៬៭៮៯៰៱៲៳៴៵៶៷៸៹៺៻៼៽៾៿ᢀᢁᢂᢃᢄᢅᢆᢇᢈᢉᢊᢋᢌᢍᢎᢏᢐᢑᢒᢓᢔᢕᢖᢗᢘᢙᢚᢛᢜᢝᢞᢟᢠᢡᢢᢣᢤᢥᢦᢧᢨᢩᢪ᢫᢬᢭᢮᢯ᢰᢱᢲᢳᢴᢵᢶᢷᢸᢹᢺᢻᢼᢽᢾᢿᣀᣁᣂᣃᣄᣅᣆᣇᣈᣉᣊᣋᣌᣍᣎᣏᣐᣑᣒᣓᣔᣕᣖᣗᣘᣙᣚᣛᣜᣝᣞᣟᣠᣡᣢᣣᣤᣥᣦᣧᣨᣩᣪᣫᣬᣭᣮᣯᣰᣱᣲᣳᣴᣵ᣶᣷᣸᣹᣺᣻᣼᣽᣾᣿ᦀᦁᦂᦃᦄᦅᦆᦇᦈᦉᦊᦋᦌᦍᦎᦏᦐᦑᦒᦓᦔᦕᦖᦗᦘᦙᦚᦛᦜᦝᦞᦟᦠᦡᦢᦣᦤᦥᦦᦧᦨᦩᦪᦫ᦬᦭᦮᦯ᦰᦱᦲᦳᦴᦵᦶᦷᦸᦹᦺᦻᦼᦽᦾᦿᧀᧁᧂᧃᧄᧅᧆᧇᧈᧉ᧊᧋᧌᧍᧎᧏᧐᧑᧒᧓᧔᧕᧖᧗᧘᧙᧚᧛᧜᧝᧞᧟᧠᧡᧢᧣᧤᧥᧦᧧᧨᧩᧪᧫᧬᧭᧮᧯᧰᧱᧲᧳᧴᧵᧶᧷᧸᧹᧺᧻᧼᧽᧾᧿᪀᪁᪂᪃᪄᪅᪆᪇᪈᪉᪊᪋᪌᪍᪎᪏᪐᪑᪒᪓᪔᪕᪖᪗᪘᪙᪚᪛᪜᪝᪞᪟᪠᪡᪢᪣᪤᪥᪦ᪧ᪨᪩᪪᪫᪬᪭᪮᪯᪵᪶᪷᪸᪹᪺᪽᪰᪱᪲᪳᪴᪻᪼᪾ᪿᫀ᫃᫄᫊᫁᫂᫅᫆᫇᫈᫉᫋ᫌᫍᫎ᫏᫐᫑᫒᫓᫔᫕᫖᫗᫘᫙᫚᫛᫜᫝᫞᫟᫠᫡᫢᫣᫤᫥᫦᫧᫨᫩᫪᫫᫬᫭᫮᫯᫰᫱᫲᫳᫴᫵᫶᫷᫸᫹᫺᫻᫼᫽᫾᫿ᮀᮁᮂᮃᮄᮅᮆᮇᮈᮉᮊᮋᮌᮍᮎᮏᮐᮑᮒᮓᮔᮕᮖᮗᮘᮙᮚᮛᮜᮝᮞᮟᮠᮡᮢᮣᮤᮥᮦᮧᮨᮩ᮪᮫ᮬᮭᮮᮯ᮰᮱᮲᮳᮴᮵᮶᮷᮸᮹ᮺᮻᮼᮽᮾᮿᯀᯁᯂᯃᯄᯅᯆᯇᯈᯉᯊᯋᯌᯍᯎᯏᯐᯑᯒᯓᯔᯕᯖᯗᯘᯙᯚᯛᯜᯝᯞᯟᯠᯡᯢᯣᯤᯥ᯦ᯧᯨᯩᯪᯫᯬᯭᯮᯯᯰᯱ᯲᯳᯴᯵᯶᯷᯸᯹᯺᯻᯼᯽᯾᯿ᲀᲁᲂᲃᲄᲅᲆᲇᲈᲉᲊ᲋᲌᲍᲎᲏ᲐᲑᲒᲓᲔᲕᲖᲗᲘᲙᲚᲛᲜᲝᲞᲟᲠᲡᲢᲣᲤᲥᲦᲧᲨᲩᲪᲫᲬᲭᲮᲯᲰᲱᲲᲳᲴᲵᲶᲷᲸᲹᲺ᲻᲼ᲽᲾᲿ᳀᳁᳂᳃᳄᳅᳆᳇᳈᳉᳊᳋᳌᳍᳎᳏᳐᳑᳒᳓᳔᳕᳖᳗᳘᳙᳜᳝᳞᳟᳚᳛᳠᳡᳢᳣᳤᳥᳦᳧᳨ᳩᳪᳫᳬ᳭ᳮᳯᳰᳱᳲᳳ᳴ᳵᳶ᳷᳸᳹ᳺ᳻᳼᳽᳾᳿ᶀᶁᶂᶃᶄᶅᶆᶇᶈᶉᶊᶋᶌᶍᶎᶏᶐᶑᶒᶓᶔᶕᶖᶗᶘᶙᶚᶛᶜᶝᶞᶟᶠᶡᶢᶣᶤᶥᶦᶧᶨᶩᶪᶫᶬᶭᶮᶯᶰᶱᶲᶳᶴᶵᶶᶷᶸᶹᶺᶻᶼᶽᶾᶿ᷐᷎᷺᷂᷊᷏᷹᷽᷿᷷᷸᷀᷁᷃᷄᷅᷆᷇᷈᷉᷋᷌᷑᷒ᷓᷔᷕᷖᷗᷘᷙᷚᷛᷜᷝᷞᷟᷠᷡᷢᷣᷤᷥᷦᷧᷨᷩᷪᷫᷬᷭᷮᷯᷰᷱᷲᷳᷴ᷵᷻᷾᷶᷼᷍ẀẁẂẃẄẅẆẇẈẉẊẋẌẍẎẏẐẑẒẓẔẕẖẗẘẙẚẛẜẝẞẟẠạẢảẤấẦầẨẩẪẫẬậẮắẰằẲẳẴẵẶặẸẹẺẻẼẽẾếỀềỂểỄễỆệỈỉỊịỌọỎỏỐốỒồỔổỖỗỘộỚớỜờỞởỠỡỢợỤụỦủỨứỪừỬửỮữỰựỲỳỴỵỶỷỸỹỺỻỼỽỾỿᾀᾁᾂᾃᾄᾅᾆᾇᾈᾉᾊᾋᾌᾍᾎᾏᾐᾑᾒᾓᾔᾕᾖᾗᾘᾙᾚᾛᾜᾝᾞᾟᾠᾡᾢᾣᾤᾥᾦᾧᾨᾩᾪᾫᾬᾭᾮᾯᾰᾱᾲᾳᾴ᾵ᾶᾷᾸᾹᾺΆᾼ᾽ι᾿῀῁ῂῃῄ῅ῆῇῈΈῊΉῌ῍῎῏ῐῑῒΐ῔῕ῖῗῘῙῚΊ῜῝῞῟ῠῡῢΰῤῥῦῧῨῩῪΎῬ῭΅`῰῱ῲῳῴ῵ῶῷῸΌῺΏῼ´῾῿₀₁₂₃₄₅₆₇₈₉₊₋₌₍₎₏ₐₑₒₓₔₕₖₗₘₙₚₛₜ₝₞₟₠₡₢₣₤₥₦₧₨₩₪₫€₭₮₯₰₱₲₳₴₵₶₷₸₹₺₻₼₽₾₿⃀⃁⃂⃃⃄⃅⃆⃇⃈⃉⃊⃋⃌⃍⃎⃏⃒⃓⃘⃙⃚⃐⃑⃔⃕⃖⃗⃛⃜⃝⃞⃟⃠⃡⃢⃣⃤⃥⃦⃪⃫⃨⃬⃭⃮⃯⃧⃩⃰⃱⃲⃳⃴⃵⃶⃷⃸⃹⃺⃻⃼⃽⃾⃿ↀↁↂↃↄↅↆↇↈ↉↊↋↌↍↎↏←↑→↓↔↕↖↗↘↙↚↛↜↝↞↟↠↡↢↣↤↥↦↧↨↩↪↫↬↭↮↯↰↱↲↳↴↵↶↷↸↹↺↻↼↽↾↿⇀⇁⇂⇃⇄⇅⇆⇇⇈⇉⇊⇋⇌⇍⇎⇏⇐⇑⇒⇓⇔⇕⇖⇗⇘⇙⇚⇛⇜⇝⇞⇟⇠⇡⇢⇣⇤⇥⇦⇧⇨⇩⇪⇫⇬⇭⇮⇯⇰⇱⇲⇳⇴⇵⇶⇷⇸⇹⇺⇻⇼⇽⇾⇿⊀⊁⊂⊃⊄⊅⊆⊇⊈⊉⊊⊋⊌⊍⊎⊏⊐⊑⊒⊓⊔⊕⊖⊗⊘⊙⊚⊛⊜⊝⊞⊟⊠⊡⊢⊣⊤⊥⊦⊧⊨⊩⊪⊫⊬⊭⊮⊯⊰⊱⊲⊳⊴⊵⊶⊷⊸⊹⊺⊻⊼⊽⊾⊿⋀⋁⋂⋃⋄⋅⋆⋇⋈⋉⋊⋋⋌⋍⋎⋏⋐⋑⋒⋓⋔⋕⋖⋗⋘⋙⋚⋛⋜⋝⋞⋟⋠⋡⋢⋣⋤⋥⋦⋧⋨⋩⋪⋫⋬⋭⋮⋯⋰⋱⋲⋳⋴⋵⋶⋷⋸⋹⋺⋻⋼⋽⋾⋿⎀⎁⎂⎃⎄⎅⎆⎇⎈⎉⎊⎋⎌⎍⎎⎏⎐⎑⎒⎓⎔⎕⎖⎗⎘⎙⎚⎛⎜⎝⎞⎟⎠⎡⎢⎣⎤⎥⎦⎧⎨⎩⎪⎫⎬⎭⎮⎯⎰⎱⎲⎳⎴⎵⎶⎷⎸⎹⎺⎻⎼⎽⎾⎿⏀⏁⏂⏃⏄⏅⏆⏇⏈⏉⏊⏋⏌⏍⏎⏏⏐⏑⏒⏓⏔⏕⏖⏗⏘⏙⏚⏛⏜⏝⏞⏟⏠⏡⏢⏣⏤⏥⏦⏧⏨⏩⏪⏫⏬⏭⏮⏯⏰⏱⏲⏳⏴⏵⏶⏷⏸⏹⏺⏻⏼⏽⏾⏿⒀⒁⒂⒃⒄⒅⒆⒇⒈⒉⒊⒋⒌⒍⒎⒏⒐⒑⒒⒓⒔⒕⒖⒗⒘⒙⒚⒛⒜⒝⒞⒟⒠⒡⒢⒣⒤⒥⒦⒧⒨⒩⒪⒫⒬⒭⒮⒯⒰⒱⒲⒳⒴⒵ⒶⒷⒸⒹⒺⒻⒼⒽⒾⒿⓀⓁⓂⓃⓄⓅⓆⓇⓈⓉⓊⓋⓌⓍⓎⓏⓐⓑⓒⓓⓔⓕⓖⓗⓘⓙⓚⓛⓜⓝⓞⓟⓠⓡⓢⓣⓤⓥⓦⓧⓨⓩ⓪⓫⓬⓭⓮⓯⓰⓱⓲⓳⓴⓵⓶⓷⓸⓹⓺⓻⓼⓽⓾⓿▀▁▂▃▄▅▆▇█▉▊▋▌▍▎▏▐░▒▓▔▕▖▗▘▙▚▛▜▝▞▟■□▢▣▤▥▦▧▨▩▪▫▬▭▮▯▰▱▲△▴▵▶▷▸▹►▻▼▽▾▿◀◁◂◃◄◅◆◇◈◉◊○◌◍◎●◐◑◒◓◔◕◖◗◘◙◚◛◜◝◞◟◠◡◢◣◤◥◦◧◨◩◪◫◬◭◮◯◰◱◲◳◴◵◶◷◸◹◺◻◼◽◾◿⚀⚁⚂⚃⚄⚅⚆⚇⚈⚉⚊⚋⚌⚍⚎⚏⚐⚑⚒⚓⚔⚕⚖⚗⚘⚙⚚⚛⚜⚝⚞⚟⚠⚡⚢⚣⚤⚥⚦⚧⚨⚩⚪⚫⚬⚭⚮⚯⚰⚱⚲⚳⚴⚵⚶⚷⚸⚹⚺⚻⚼⚽⚾⚿⛀⛁⛂⛃⛄⛅⛆⛇⛈⛉⛊⛋⛌⛍⛎⛏⛐⛑⛒⛓⛔⛕⛖⛗⛘⛙⛚⛛⛜⛝⛞⛟⛠⛡⛢⛣⛤⛥⛦⛧⛨⛩⛪⛫⛬⛭⛮⛯⛰⛱⛲⛳⛴⛵⛶⛷⛸⛹⛺⛻⛼⛽⛾⛿➀➁➂➃➄➅➆➇➈➉➊➋➌➍➎➏➐➑➒➓➔➕➖➗➘➙➚➛➜➝➞➟➠➡➢➣➤➥➦➧➨➩➪➫➬➭➮➯➰➱➲➳➴➵➶➷➸➹➺➻➼➽➾➿⟀⟁⟂⟃⟄⟅⟆⟇⟈⟉⟊⟋⟌⟍⟎⟏⟐⟑⟒⟓⟔⟕⟖⟗⟘⟙⟚⟛⟜⟝⟞⟟⟠⟡⟢⟣⟤⟥⟦⟧⟨⟩⟪⟫⟬⟭⟮⟯⟰⟱⟲⟳⟴⟵⟶⟷⟸⟹⟺⟻⟼⟽⟾⟿⢀⢁⢂⢃⢄⢅⢆⢇⢈⢉⢊⢋⢌⢍⢎⢏⢐⢑⢒⢓⢔⢕⢖⢗⢘⢙⢚⢛⢜⢝⢞⢟⢠⢡⢢⢣⢤⢥⢦⢧⢨⢩⢪⢫⢬⢭⢮⢯⢰⢱⢲⢳⢴⢵⢶⢷⢸⢹⢺⢻⢼⢽⢾⢿⣀⣁⣂⣃⣄⣅⣆⣇⣈⣉⣊⣋⣌⣍⣎⣏⣐⣑⣒⣓⣔⣕⣖⣗⣘⣙⣚⣛⣜⣝⣞⣟⣠⣡⣢⣣⣤⣥⣦⣧⣨⣩⣪⣫⣬⣭⣮⣯⣰⣱⣲⣳⣴⣵⣶⣷⣸⣹⣺⣻⣼⣽⣾⣿⦀⦁⦂⦃⦄⦅⦆⦇⦈⦉⦊⦋⦌⦍⦎⦏⦐⦑⦒⦓⦔⦕⦖⦗⦘⦙⦚⦛⦜⦝⦞⦟⦠⦡⦢⦣⦤⦥⦦⦧⦨⦩⦪⦫⦬⦭⦮⦯⦰⦱⦲⦳⦴⦵⦶⦷⦸⦹⦺⦻⦼⦽⦾⦿⧀⧁⧂⧃⧄⧅⧆⧇⧈⧉⧊⧋⧌⧍⧎⧏⧐⧑⧒⧓⧔⧕⧖⧗⧘⧙⧚⧛⧜⧝⧞⧟⧠⧡⧢⧣⧤⧥⧦⧧⧨⧩⧪⧫⧬⧭⧮⧯⧰⧱⧲⧳⧴⧵⧶⧷⧸⧹⧺⧻⧼⧽⧾⧿⪀⪁⪂⪃⪄⪅⪆⪇⪈⪉⪊⪋⪌⪍⪎⪏⪐⪑⪒⪓⪔⪕⪖⪗⪘⪙⪚⪛⪜⪝⪞⪟⪠⪡⪢⪣⪤⪥⪦⪧⪨⪩⪪⪫⪬⪭⪮⪯⪰⪱⪲⪳⪴⪵⪶⪷⪸⪹⪺⪻⪼⪽⪾⪿⫀⫁⫂⫃⫄⫅⫆⫇⫈⫉⫊⫋⫌⫍⫎⫏⫐⫑⫒⫓⫔⫕⫖⫗⫘⫙⫚⫛⫝̸⫝⫞⫟⫠⫡⫢⫣⫤⫥⫦⫧⫨⫩⫪⫫⫬⫭⫮⫯⫰⫱⫲⫳⫴⫵⫶⫷⫸⫹⫺⫻⫼⫽⫾⫿⮀⮁⮂⮃⮄⮅⮆⮇⮈⮉⮊⮋⮌⮍⮎⮏⮐⮑⮒⮓⮔⮕⮖⮗⮘⮙⮚⮛⮜⮝⮞⮟⮠⮡⮢⮣⮤⮥⮦⮧⮨⮩⮪⮫⮬⮭⮮⮯⮰⮱⮲⮳⮴⮵⮶⮷⮸⮹⮺⮻⮼⮽⮾⮿⯀⯁⯂⯃⯄⯅⯆⯇⯈⯉⯊⯋⯌⯍⯎⯏⯐⯑⯒⯓⯔⯕⯖⯗⯘⯙⯚⯛⯜⯝⯞⯟⯠⯡⯢⯣⯤⯥⯦⯧⯨⯩⯪⯫⯬⯭⯮⯯⯰⯱⯲⯳⯴⯵⯶⯷⯸⯹⯺⯻⯼⯽⯾⯿ⲀⲁⲂⲃⲄⲅⲆⲇⲈⲉⲊⲋⲌⲍⲎⲏⲐⲑⲒⲓⲔⲕⲖⲗⲘⲙⲚⲛⲜⲝⲞⲟⲠⲡⲢⲣⲤⲥⲦⲧⲨⲩⲪⲫⲬⲭⲮⲯⲰⲱⲲⲳⲴⲵⲶⲷⲸⲹⲺⲻⲼⲽⲾⲿⳀⳁⳂⳃⳄⳅⳆⳇⳈⳉⳊⳋⳌⳍⳎⳏⳐⳑⳒⳓⳔⳕⳖⳗⳘⳙⳚⳛⳜⳝⳞⳟⳠⳡⳢⳣⳤ⳥⳦⳧⳨⳩⳪ⳫⳬⳭⳮ⳯⳰⳱Ⳳⳳ⳴⳵⳶⳷⳸⳹⳺⳻⳼⳽⳾⳿ⶀⶁⶂⶃⶄⶅⶆⶇⶈⶉⶊⶋⶌⶍⶎⶏⶐⶑⶒⶓⶔⶕⶖ⶗⶘⶙⶚⶛⶜⶝⶞⶟ⶠⶡⶢⶣⶤⶥⶦ⶧ⶨⶩⶪⶫⶬⶭⶮ⶯ⶰⶱⶲⶳⶴⶵⶶ⶷ⶸⶹⶺⶻⶼⶽⶾ⶿ⷀⷁⷂⷃⷄⷅⷆ⷇ⷈⷉⷊⷋⷌⷍⷎ⷏ⷐⷑⷒⷓⷔⷕⷖ⷗ⷘⷙⷚⷛⷜⷝⷞ⷟ⷠⷡⷢⷣⷤⷥⷦⷧⷨⷩⷪⷫⷬⷭⷮⷯⷰⷱⷲⷳⷴⷵⷶⷷⷸⷹⷺⷻⷼⷽⷾⷿ⺀⺁⺂⺃⺄⺅⺆⺇⺈⺉⺊⺋⺌⺍⺎⺏⺐⺑⺒⺓⺔⺕⺖⺗⺘⺙⺚⺛⺜⺝⺞⺟⺠⺡⺢⺣⺤⺥⺦⺧⺨⺩⺪⺫⺬⺭⺮⺯⺰⺱⺲⺳⺴⺵⺶⺷⺸⺹⺺⺻⺼⺽⺾⺿⻀⻁⻂⻃⻄⻅⻆⻇⻈⻉⻊⻋⻌⻍⻎⻏⻐⻑⻒⻓⻔⻕⻖⻗⻘⻙⻚⻛⻜⻝⻞⻟⻠⻡⻢⻣⻤⻥⻦⻧⻨⻩⻪⻫⻬⻭⻮⻯⻰⻱⻲⻳⻴⻵⻶⻷⻸⻹⻺⻻⻼⻽⻾⻿⾀⾁⾂⾃⾄⾅⾆⾇⾈⾉⾊⾋⾌⾍⾎⾏⾐⾑⾒⾓⾔⾕⾖⾗⾘⾙⾚⾛⾜⾝⾞⾟⾠⾡⾢⾣⾤⾥⾦⾧⾨⾩⾪⾫⾬⾭⾮⾯⾰⾱⾲⾳⾴⾵⾶⾷⾸⾹⾺⾻⾼⾽⾾⾿⿀⿁⿂⿃⿄⿅⿆⿇⿈⿉⿊⿋⿌⿍⿎⿏⿐⿑⿒⿓⿔⿕⿖⿗⿘⿙⿚⿛⿜⿝⿞⿟⿠⿡⿢⿣⿤⿥⿦⿧⿨⿩⿪⿫⿬⿭⿮⿯⿰⿱⿲⿳⿴⿵⿶⿷⿸⿹⿺⿻⿼⿽⿾⿿むめもゃやゅゆょよらりるれろゎわゐゑをんゔゕゖ゗゘゙゚゛゜ゝゞゟ゠ァアィイゥウェエォオカガキギクグケゲコゴサザシジスズセゼソゾタダチヂッツヅテデトドナニヌネノハバパヒビピフブプヘベペホボポマミムメモャヤュユョヨラリルレロヮワヰヱヲンヴヵヶヷヸヹヺ・ーヽヾヿㆀㆁㆂㆃㆄㆅㆆㆇㆈㆉㆊㆋㆌㆍㆎ㆏㆐㆑㆒㆓㆔㆕㆖㆗㆘㆙㆚㆛㆜㆝㆞㆟ㆠㆡㆢㆣㆤㆥㆦㆧㆨㆩㆪㆫㆬㆭㆮㆯㆰㆱㆲㆳㆴㆵㆶㆷㆸㆹㆺㆻㆼㆽㆾㆿ㇀㇁㇂㇃㇄㇅㇆㇇㇈㇉㇊㇋㇌㇍㇎㇏㇐㇑㇒㇓㇔㇕㇖㇗㇘㇙㇚㇛㇜㇝㇞㇟㇠㇡㇢㇣㇤㇥㇦㇧㇨㇩㇪㇫㇬㇭㇮㇯ㇰㇱㇲㇳㇴㇵㇶㇷㇸㇹㇺㇻㇼㇽㇾㇿ㊀㊁㊂㊃㊄㊅㊆㊇㊈㊉㊊㊋㊌㊍㊎㊏㊐㊑㊒㊓㊔㊕㊖㊗㊘㊙㊚㊛㊜㊝㊞㊟㊠㊡㊢㊣㊤㊥㊦㊧㊨㊩㊪㊫㊬㊭㊮㊯㊰㊱㊲㊳㊴㊵㊶㊷㊸㊹㊺㊻㊼㊽㊾㊿㋀㋁㋂㋃㋄㋅㋆㋇㋈㋉㋊㋋㋌㋍㋎㋏㋐㋑㋒㋓㋔㋕㋖㋗㋘㋙㋚㋛㋜㋝㋞㋟㋠㋡㋢㋣㋤㋥㋦㋧㋨㋩㋪㋫㋬㋭㋮㋯㋰㋱㋲㋳㋴㋵㋶㋷㋸㋹㋺㋻㋼㋽㋾㋿㎀㎁㎂㎃㎄㎅㎆㎇㎈㎉㎊㎋㎌㎍㎎㎏㎐㎑㎒㎓㎔㎕㎖㎗㎘㎙㎚㎛㎜㎝㎞㎟㎠㎡㎢㎣㎤㎥㎦㎧㎨㎩㎪㎫㎬㎭㎮㎯㎰㎱㎲㎳㎴㎵㎶㎷㎸㎹㎺㎻㎼㎽㎾㎿㏀㏁㏂㏃㏄㏅㏆㏇㏈㏉㏊㏋㏌㏍㏎㏏㏐㏑㏒㏓㏔㏕㏖㏗㏘㏙㏚㏛㏜㏝㏞㏟㏠㏡㏢㏣㏤㏥㏦㏧㏨㏩㏪㏫㏬㏭㏮㏯㏰㏱㏲㏳㏴㏵㏶㏷㏸㏹㏺㏻㏼㏽㏾㏿㒀㒁㒂㒃㒄㒅㒆㒇㒈㒉㒊㒋㒌㒍㒎㒏㒐㒑㒒㒓㒔㒕㒖㒗㒘㒙㒚㒛㒜㒝㒞㒟㒠㒡㒢㒣㒤㒥㒦㒧㒨㒩㒪㒫㒬㒭㒮㒯㒰㒱㒲㒳㒴㒵㒶㒷㒸㒹㒺㒻㒼㒽㒾㒿㓀㓁㓂㓃㓄㓅㓆㓇㓈㓉㓊㓋㓌㓍㓎㓏㓐㓑㓒㓓㓔㓕㓖㓗㓘㓙㓚㓛㓜㓝㓞㓟㓠㓡㓢㓣㓤㓥㓦㓧㓨㓩㓪㓫㓬㓭㓮㓯㓰㓱㓲㓳㓴㓵㓶㓷㓸㓹㓺㓻㓼㓽㓾㓿㖀㖁㖂㖃㖄㖅㖆㖇㖈㖉㖊㖋㖌㖍㖎㖏㖐㖑㖒㖓㖔㖕㖖㖗㖘㖙㖚㖛㖜㖝㖞㖟㖠㖡㖢㖣㖤㖥㖦㖧㖨㖩㖪㖫㖬㖭㖮㖯㖰㖱㖲㖳㖴㖵㖶㖷㖸㖹㖺㖻㖼㖽㖾㖿㗀㗁㗂㗃㗄㗅㗆㗇㗈㗉㗊㗋㗌㗍㗎㗏㗐㗑㗒㗓㗔㗕㗖㗗㗘㗙㗚㗛㗜㗝㗞㗟㗠㗡㗢㗣㗤㗥㗦㗧㗨㗩㗪㗫㗬㗭㗮㗯㗰㗱㗲㗳㗴㗵㗶㗷㗸㗹㗺㗻㗼㗽㗾㗿㚀㚁㚂㚃㚄㚅㚆㚇㚈㚉㚊㚋㚌㚍㚎㚏㚐㚑㚒㚓㚔㚕㚖㚗㚘㚙㚚㚛㚜㚝㚞㚟㚠㚡㚢㚣㚤㚥㚦㚧㚨㚩㚪㚫㚬㚭㚮㚯㚰㚱㚲㚳㚴㚵㚶㚷㚸㚹㚺㚻㚼㚽㚾㚿㛀㛁㛂㛃㛄㛅㛆㛇㛈㛉㛊㛋㛌㛍㛎㛏㛐㛑㛒㛓㛔㛕㛖㛗㛘㛙㛚㛛㛜㛝㛞㛟㛠㛡㛢㛣㛤㛥㛦㛧㛨㛩㛪㛫㛬㛭㛮㛯㛰㛱㛲㛳㛴㛵㛶㛷㛸㛹㛺㛻㛼㛽㛾㛿㞀㞁㞂㞃㞄㞅㞆㞇㞈㞉㞊㞋㞌㞍㞎㞏㞐㞑㞒㞓㞔㞕㞖㞗㞘㞙㞚㞛㞜㞝㞞㞟㞠㞡㞢㞣㞤㞥㞦㞧㞨㞩㞪㞫㞬㞭㞮㞯㞰㞱㞲㞳㞴㞵㞶㞷㞸㞹㞺㞻㞼㞽㞾㞿㟀㟁㟂㟃㟄㟅㟆㟇㟈㟉㟊㟋㟌㟍㟎㟏㟐㟑㟒㟓㟔㟕㟖㟗㟘㟙㟚㟛㟜㟝㟞㟟㟠㟡㟢㟣㟤㟥㟦㟧㟨㟩㟪㟫㟬㟭㟮㟯㟰㟱㟲㟳㟴㟵㟶㟷㟸㟹㟺㟻㟼㟽㟾㟿㢀㢁㢂㢃㢄㢅㢆㢇㢈㢉㢊㢋㢌㢍㢎㢏㢐㢑㢒㢓㢔㢕㢖㢗㢘㢙㢚㢛㢜㢝㢞㢟㢠㢡㢢㢣㢤㢥㢦㢧㢨㢩㢪㢫㢬㢭㢮㢯㢰㢱㢲㢳㢴㢵㢶㢷㢸㢹㢺㢻㢼㢽㢾㢿㣀㣁㣂㣃㣄㣅㣆㣇㣈㣉㣊㣋㣌㣍㣎㣏㣐㣑㣒㣓㣔㣕㣖㣗㣘㣙㣚㣛㣜㣝㣞㣟㣠㣡㣢㣣㣤㣥㣦㣧㣨㣩㣪㣫㣬㣭㣮㣯㣰㣱㣲㣳㣴㣵㣶㣷㣸㣹㣺㣻㣼㣽㣾㣿㦀㦁㦂㦃㦄㦅㦆㦇㦈㦉㦊㦋㦌㦍㦎㦏㦐㦑㦒㦓㦔㦕㦖㦗㦘㦙㦚㦛㦜㦝㦞㦟㦠㦡㦢㦣㦤㦥㦦㦧㦨㦩㦪㦫㦬㦭㦮㦯㦰㦱㦲㦳㦴㦵㦶㦷㦸㦹㦺㦻㦼㦽㦾㦿㧀㧁㧂㧃㧄㧅㧆㧇㧈㧉㧊㧋㧌㧍㧎㧏㧐㧑㧒㧓㧔㧕㧖㧗㧘㧙㧚㧛㧜㧝㧞㧟㧠㧡㧢㧣㧤㧥㧦㧧㧨㧩㧪㧫㧬㧭㧮㧯㧰㧱㧲㧳㧴㧵㧶㧷㧸㧹㧺㧻㧼㧽㧾㧿㪀㪁㪂㪃㪄㪅㪆㪇㪈㪉㪊㪋㪌㪍㪎㪏㪐㪑㪒㪓㪔㪕㪖㪗㪘㪙㪚㪛㪜㪝㪞㪟㪠㪡㪢㪣㪤㪥㪦㪧㪨㪩㪪㪫㪬㪭㪮㪯㪰㪱㪲㪳㪴㪵㪶㪷㪸㪹㪺㪻㪼㪽㪾㪿㫀㫁㫂㫃㫄㫅㫆㫇㫈㫉㫊㫋㫌㫍㫎㫏㫐㫑㫒㫓㫔㫕㫖㫗㫘㫙㫚㫛㫜㫝㫞㫟㫠㫡㫢㫣㫤㫥㫦㫧㫨㫩㫪㫫㫬㫭㫮㫯㫰㫱㫲㫳㫴㫵㫶㫷㫸㫹㫺㫻㫼㫽㫾㫿㮀㮁㮂㮃㮄㮅㮆㮇㮈㮉㮊㮋㮌㮍㮎㮏㮐㮑㮒㮓㮔㮕㮖㮗㮘㮙㮚㮛㮜㮝㮞㮟㮠㮡㮢㮣㮤㮥㮦㮧㮨㮩㮪㮫㮬㮭㮮㮯㮰㮱㮲㮳㮴㮵㮶㮷㮸㮹㮺㮻㮼㮽㮾㮿㯀㯁㯂㯃㯄㯅㯆㯇㯈㯉㯊㯋㯌㯍㯎㯏㯐㯑㯒㯓㯔㯕㯖㯗㯘㯙㯚㯛㯜㯝㯞㯟㯠㯡㯢㯣㯤㯥㯦㯧㯨㯩㯪㯫㯬㯭㯮㯯㯰㯱㯲㯳㯴㯵㯶㯷㯸㯹㯺㯻㯼㯽㯾㯿㲀㲁㲂㲃㲄㲅㲆㲇㲈㲉㲊㲋㲌㲍㲎㲏㲐㲑㲒㲓㲔㲕㲖㲗㲘㲙㲚㲛㲜㲝㲞㲟㲠㲡㲢㲣㲤㲥㲦㲧㲨㲩㲪㲫㲬㲭㲮㲯㲰㲱㲲㲳㲴㲵㲶㲷㲸㲹㲺㲻㲼㲽㲾㲿㳀㳁㳂㳃㳄㳅㳆㳇㳈㳉㳊㳋㳌㳍㳎㳏㳐㳑㳒㳓㳔㳕㳖㳗㳘㳙㳚㳛㳜㳝㳞㳟㳠㳡㳢㳣㳤㳥㳦㳧㳨㳩㳪㳫㳬㳭㳮㳯㳰㳱㳲㳳㳴㳵㳶㳷㳸㳹㳺㳻㳼㳽㳾㳿㶀㶁㶂㶃㶄㶅㶆㶇㶈㶉㶊㶋㶌㶍㶎㶏㶐㶑㶒㶓㶔㶕㶖㶗㶘㶙㶚㶛㶜㶝㶞㶟㶠㶡㶢㶣㶤㶥㶦㶧㶨㶩㶪㶫㶬㶭㶮㶯㶰㶱㶲㶳㶴㶵㶶㶷㶸㶹㶺㶻㶼㶽㶾㶿㷀㷁㷂㷃㷄㷅㷆㷇㷈㷉㷊㷋㷌㷍㷎㷏㷐㷑㷒㷓㷔㷕㷖㷗㷘㷙㷚㷛㷜㷝㷞㷟㷠㷡㷢㷣㷤㷥㷦㷧㷨㷩㷪㷫㷬㷭㷮㷯㷰㷱㷲㷳㷴㷵㷶㷷㷸㷹㷺㷻㷼㷽㷾㷿㺀㺁㺂㺃㺄㺅㺆㺇㺈㺉㺊㺋㺌㺍㺎㺏㺐㺑㺒㺓㺔㺕㺖㺗㺘㺙㺚㺛㺜㺝㺞㺟㺠㺡㺢㺣㺤㺥㺦㺧㺨㺩㺪㺫㺬㺭㺮㺯㺰㺱㺲㺳㺴㺵㺶㺷㺸㺹㺺㺻㺼㺽㺾㺿㻀㻁㻂㻃㻄㻅㻆㻇㻈㻉㻊㻋㻌㻍㻎㻏㻐㻑㻒㻓㻔㻕㻖㻗㻘㻙㻚㻛㻜㻝㻞㻟㻠㻡㻢㻣㻤㻥㻦㻧㻨㻩㻪㻫㻬㻭㻮㻯㻰㻱㻲㻳㻴㻵㻶㻷㻸㻹㻺㻻㻼㻽㻾㻿㾀㾁㾂㾃㾄㾅㾆㾇㾈㾉㾊㾋㾌㾍㾎㾏㾐㾑㾒㾓㾔㾕㾖㾗㾘㾙㾚㾛㾜㾝㾞㾟㾠㾡㾢㾣㾤㾥㾦㾧㾨㾩㾪㾫㾬㾭㾮㾯㾰㾱㾲㾳㾴㾵㾶㾷㾸㾹㾺㾻㾼㾽㾾㾿㿀㿁㿂㿃㿄㿅㿆㿇㿈㿉㿊㿋㿌㿍㿎㿏㿐㿑㿒㿓㿔㿕㿖㿗㿘㿙㿚㿛㿜㿝㿞㿟㿠㿡㿢㿣㿤㿥㿦㿧㿨㿩㿪㿫㿬㿭㿮㿯㿰㿱㿲㿳㿴㿵㿶㿷㿸㿹㿺㿻㿼㿽㿾㿿䂀䂁䂂䂃䂄䂅䂆䂇䂈䂉䂊䂋䂌䂍䂎䂏䂐䂑䂒䂓䂔䂕䂖䂗䂘䂙䂚䂛䂜䂝䂞䂟䂠䂡䂢䂣䂤䂥䂦䂧䂨䂩䂪䂫䂬䂭䂮䂯䂰䂱䂲䂳䂴䂵䂶䂷䂸䂹䂺䂻䂼䂽䂾䂿䃀䃁䃂䃃䃄䃅䃆䃇䃈䃉䃊䃋䃌䃍䃎䃏䃐䃑䃒䃓䃔䃕䃖䃗䃘䃙䃚䃛䃜䃝䃞䃟䃠䃡䃢䃣䃤䃥䃦䃧䃨䃩䃪䃫䃬䃭䃮䃯䃰䃱䃲䃳䃴䃵䃶䃷䃸䃹䃺䃻䃼䃽䃾䃿䆀䆁䆂䆃䆄䆅䆆䆇䆈䆉䆊䆋䆌䆍䆎䆏䆐䆑䆒䆓䆔䆕䆖䆗䆘䆙䆚䆛䆜䆝䆞䆟䆠䆡䆢䆣䆤䆥䆦䆧䆨䆩䆪䆫䆬䆭䆮䆯䆰䆱䆲䆳䆴䆵䆶䆷䆸䆹䆺䆻䆼䆽䆾䆿䇀䇁䇂䇃䇄䇅䇆䇇䇈䇉䇊䇋䇌䇍䇎䇏䇐䇑䇒䇓䇔䇕䇖䇗䇘䇙䇚䇛䇜䇝䇞䇟䇠䇡䇢䇣䇤䇥䇦䇧䇨䇩䇪䇫䇬䇭䇮䇯䇰䇱䇲䇳䇴䇵䇶䇷䇸䇹䇺䇻䇼䇽䇾䇿䊀䊁䊂䊃䊄䊅䊆䊇䊈䊉䊊䊋䊌䊍䊎䊏䊐䊑䊒䊓䊔䊕䊖䊗䊘䊙䊚䊛䊜䊝䊞䊟䊠䊡䊢䊣䊤䊥䊦䊧䊨䊩䊪䊫䊬䊭䊮䊯䊰䊱䊲䊳䊴䊵䊶䊷䊸䊹䊺䊻䊼䊽䊾䊿䋀䋁䋂䋃䋄䋅䋆䋇䋈䋉䋊䋋䋌䋍䋎䋏䋐䋑䋒䋓䋔䋕䋖䋗䋘䋙䋚䋛䋜䋝䋞䋟䋠䋡䋢䋣䋤䋥䋦䋧䋨䋩䋪䋫䋬䋭䋮䋯䋰䋱䋲䋳䋴䋵䋶䋷䋸䋹䋺䋻䋼䋽䋾䋿䎀䎁䎂䎃䎄䎅䎆䎇䎈䎉䎊䎋䎌䎍䎎䎏䎐䎑䎒䎓䎔䎕䎖䎗䎘䎙䎚䎛䎜䎝䎞䎟䎠䎡䎢䎣䎤䎥䎦䎧䎨䎩䎪䎫䎬䎭䎮䎯䎰䎱䎲䎳䎴䎵䎶䎷䎸䎹䎺䎻䎼䎽䎾䎿䏀䏁䏂䏃䏄䏅䏆䏇䏈䏉䏊䏋䏌䏍䏎䏏䏐䏑䏒䏓䏔䏕䏖䏗䏘䏙䏚䏛䏜䏝䏞䏟䏠䏡䏢䏣䏤䏥䏦䏧䏨䏩䏪䏫䏬䏭䏮䏯䏰䏱䏲䏳䏴䏵䏶䏷䏸䏹䏺䏻䏼䏽䏾䏿䒀䒁䒂䒃䒄䒅䒆䒇䒈䒉䒊䒋䒌䒍䒎䒏䒐䒑䒒䒓䒔䒕䒖䒗䒘䒙䒚䒛䒜䒝䒞䒟䒠䒡䒢䒣䒤䒥䒦䒧䒨䒩䒪䒫䒬䒭䒮䒯䒰䒱䒲䒳䒴䒵䒶䒷䒸䒹䒺䒻䒼䒽䒾䒿䓀䓁䓂䓃䓄䓅䓆䓇䓈䓉䓊䓋䓌䓍䓎䓏䓐䓑䓒䓓䓔䓕䓖䓗䓘䓙䓚䓛䓜䓝䓞䓟䓠䓡䓢䓣䓤䓥䓦䓧䓨䓩䓪䓫䓬䓭䓮䓯䓰䓱䓲䓳䓴䓵䓶䓷䓸䓹䓺䓻䓼䓽䓾䓿䖀䖁䖂䖃䖄䖅䖆䖇䖈䖉䖊䖋䖌䖍䖎䖏䖐䖑䖒䖓䖔䖕䖖䖗䖘䖙䖚䖛䖜䖝䖞䖟䖠䖡䖢䖣䖤䖥䖦䖧䖨䖩䖪䖫䖬䖭䖮䖯䖰䖱䖲䖳䖴䖵䖶䖷䖸䖹䖺䖻䖼䖽䖾䖿䗀䗁䗂䗃䗄䗅䗆䗇䗈䗉䗊䗋䗌䗍䗎䗏䗐䗑䗒䗓䗔䗕䗖䗗䗘䗙䗚䗛䗜䗝䗞䗟䗠䗡䗢䗣䗤䗥䗦䗧䗨䗩䗪䗫䗬䗭䗮䗯䗰䗱䗲䗳䗴䗵䗶䗷䗸䗹䗺䗻䗼䗽䗾䗿䚀䚁䚂䚃䚄䚅䚆䚇䚈䚉䚊䚋䚌䚍䚎䚏䚐䚑䚒䚓䚔䚕䚖䚗䚘䚙䚚䚛䚜䚝䚞䚟䚠䚡䚢䚣䚤䚥䚦䚧䚨䚩䚪䚫䚬䚭䚮䚯䚰䚱䚲䚳䚴䚵䚶䚷䚸䚹䚺䚻䚼䚽䚾䚿䛀䛁䛂䛃䛄䛅䛆䛇䛈䛉䛊䛋䛌䛍䛎䛏䛐䛑䛒䛓䛔䛕䛖䛗䛘䛙䛚䛛䛜䛝䛞䛟䛠䛡䛢䛣䛤䛥䛦䛧䛨䛩䛪䛫䛬䛭䛮䛯䛰䛱䛲䛳䛴䛵䛶䛷䛸䛹䛺䛻䛼䛽䛾䛿䞀䞁䞂䞃䞄䞅䞆䞇䞈䞉䞊䞋䞌䞍䞎䞏䞐䞑䞒䞓䞔䞕䞖䞗䞘䞙䞚䞛䞜䞝䞞䞟䞠䞡䞢䞣䞤䞥䞦䞧䞨䞩䞪䞫䞬䞭䞮䞯䞰䞱䞲䞳䞴䞵䞶䞷䞸䞹䞺䞻䞼䞽䞾䞿䟀䟁䟂䟃䟄䟅䟆䟇䟈䟉䟊䟋䟌䟍䟎䟏䟐䟑䟒䟓䟔䟕䟖䟗䟘䟙䟚䟛䟜䟝䟞䟟䟠䟡䟢䟣䟤䟥䟦䟧䟨䟩䟪䟫䟬䟭䟮䟯䟰䟱䟲䟳䟴䟵䟶䟷䟸䟹䟺䟻䟼䟽䟾䟿䢀䢁䢂䢃䢄䢅䢆䢇䢈䢉䢊䢋䢌䢍䢎䢏䢐䢑䢒䢓䢔䢕䢖䢗䢘䢙䢚䢛䢜䢝䢞䢟䢠䢡䢢䢣䢤䢥䢦䢧䢨䢩䢪䢫䢬䢭䢮䢯䢰䢱䢲䢳䢴䢵䢶䢷䢸䢹䢺䢻䢼䢽䢾䢿䣀䣁䣂䣃䣄䣅䣆䣇䣈䣉䣊䣋䣌䣍䣎䣏䣐䣑䣒䣓䣔䣕䣖䣗䣘䣙䣚䣛䣜䣝䣞䣟䣠䣡䣢䣣䣤䣥䣦䣧䣨䣩䣪䣫䣬䣭䣮䣯䣰䣱䣲䣳䣴䣵䣶䣷䣸䣹䣺䣻䣼䣽䣾䣿䦀䦁䦂䦃䦄䦅䦆䦇䦈䦉䦊䦋䦌䦍䦎䦏䦐䦑䦒䦓䦔䦕䦖䦗䦘䦙䦚䦛䦜䦝䦞䦟䦠䦡䦢䦣䦤䦥䦦䦧䦨䦩䦪䦫䦬䦭䦮䦯䦰䦱䦲䦳䦴䦵䦶䦷䦸䦹䦺䦻䦼䦽䦾䦿䧀䧁䧂䧃䧄䧅䧆䧇䧈䧉䧊䧋䧌䧍䧎䧏䧐䧑䧒䧓䧔䧕䧖䧗䧘䧙䧚䧛䧜䧝䧞䧟䧠䧡䧢䧣䧤䧥䧦䧧䧨䧩䧪䧫䧬䧭䧮䧯䧰䧱䧲䧳䧴䧵䧶䧷䧸䧹䧺䧻䧼䧽䧾䧿䪀䪁䪂䪃䪄䪅䪆䪇䪈䪉䪊䪋䪌䪍䪎䪏䪐䪑䪒䪓䪔䪕䪖䪗䪘䪙䪚䪛䪜䪝䪞䪟䪠䪡䪢䪣䪤䪥䪦䪧䪨䪩䪪䪫䪬䪭䪮䪯䪰䪱䪲䪳䪴䪵䪶䪷䪸䪹䪺䪻䪼䪽䪾䪿䫀䫁䫂䫃䫄䫅䫆䫇䫈䫉䫊䫋䫌䫍䫎䫏䫐䫑䫒䫓䫔䫕䫖䫗䫘䫙䫚䫛䫜䫝䫞䫟䫠䫡䫢䫣䫤䫥䫦䫧䫨䫩䫪䫫䫬䫭䫮䫯䫰䫱䫲䫳䫴䫵䫶䫷䫸䫹䫺䫻䫼䫽䫾䫿䮀䮁䮂䮃䮄䮅䮆䮇䮈䮉䮊䮋䮌䮍䮎䮏䮐䮑䮒䮓䮔䮕䮖䮗䮘䮙䮚䮛䮜䮝䮞䮟䮠䮡䮢䮣䮤䮥䮦䮧䮨䮩䮪䮫䮬䮭䮮䮯䮰䮱䮲䮳䮴䮵䮶䮷䮸䮹䮺䮻䮼䮽䮾䮿䯀䯁䯂䯃䯄䯅䯆䯇䯈䯉䯊䯋䯌䯍䯎䯏䯐䯑䯒䯓䯔䯕䯖䯗䯘䯙䯚䯛䯜䯝䯞䯟䯠䯡䯢䯣䯤䯥䯦䯧䯨䯩䯪䯫䯬䯭䯮䯯䯰䯱䯲䯳䯴䯵䯶䯷䯸䯹䯺䯻䯼䯽䯾䯿䲀䲁䲂䲃䲄䲅䲆䲇䲈䲉䲊䲋䲌䲍䲎䲏䲐䲑䲒䲓䲔䲕䲖䲗䲘䲙䲚䲛䲜䲝䲞䲟䲠䲡䲢䲣䲤䲥䲦䲧䲨䲩䲪䲫䲬䲭䲮䲯䲰䲱䲲䲳䲴䲵䲶䲷䲸䲹䲺䲻䲼䲽䲾䲿䳀䳁䳂䳃䳄䳅䳆䳇䳈䳉䳊䳋䳌䳍䳎䳏䳐䳑䳒䳓䳔䳕䳖䳗䳘䳙䳚䳛䳜䳝䳞䳟䳠䳡䳢䳣䳤䳥䳦䳧䳨䳩䳪䳫䳬䳭䳮䳯䳰䳱䳲䳳䳴䳵䳶䳷䳸䳹䳺䳻䳼䳽䳾䳿䶀䶁䶂䶃䶄䶅䶆䶇䶈䶉䶊䶋䶌䶍䶎䶏䶐䶑䶒䶓䶔䶕䶖䶗䶘䶙䶚䶛䶜䶝䶞䶟䶠䶡䶢䶣䶤䶥䶦䶧䶨䶩䶪䶫䶬䶭䶮䶯䶰䶱䶲䶳䶴䶵䶶䶷䶸䶹䶺䶻䶼䶽䶾䶿䷀䷁䷂䷃䷄䷅䷆䷇䷈䷉䷊䷋䷌䷍䷎䷏䷐䷑䷒䷓䷔䷕䷖䷗䷘䷙䷚䷛䷜䷝䷞䷟䷠䷡䷢䷣䷤䷥䷦䷧䷨䷩䷪䷫䷬䷭䷮䷯䷰䷱䷲䷳䷴䷵䷶䷷䷸䷹䷺䷻䷼䷽䷾䷿亀亁亂亃亄亅了亇予争亊事二亍于亏亐云互亓五井亖亗亘亙亚些亜亝亞亟亠亡亢亣交亥亦产亨亩亪享京亭亮亯亰亱亲亳亴亵亶亷亸亹人亻亼亽亾亿什仁仂仃仄仅仆仇仈仉今介仌仍从仏仐仑仒仓仔仕他仗付仙仚仛仜仝仞仟仠仡仢代令以仦仧仨仩仪仫们仭仮仯仰仱仲仳仴仵件价仸仹仺任仼份仾仿侀侁侂侃侄侅來侇侈侉侊例侌侍侎侏侐侑侒侓侔侕侖侗侘侙侚供侜依侞侟侠価侢侣侤侥侦侧侨侩侪侫侬侭侮侯侰侱侲侳侴侵侶侷侸侹侺侻侼侽侾便俀俁係促俄俅俆俇俈俉俊俋俌俍俎俏俐俑俒俓俔俕俖俗俘俙俚俛俜保俞俟俠信俢俣俤俥俦俧俨俩俪俫俬俭修俯俰俱俲俳俴俵俶俷俸俹俺俻俼俽俾俿傀傁傂傃傄傅傆傇傈傉傊傋傌傍傎傏傐傑傒傓傔傕傖傗傘備傚傛傜傝傞傟傠傡傢傣傤傥傦傧储傩傪傫催傭傮傯傰傱傲傳傴債傶傷傸傹傺傻傼傽傾傿僀僁僂僃僄僅僆僇僈僉僊僋僌働僎像僐僑僒僓僔僕僖僗僘僙僚僛僜僝僞僟僠僡僢僣僤僥僦僧僨僩僪僫僬僭僮僯僰僱僲僳僴僵僶僷僸價僺僻僼僽僾僿冀冁冂冃冄内円冇冈冉冊冋册再冎冏冐冑冒冓冔冕冖冗冘写冚军农冝冞冟冠冡冢冣冤冥冦冧冨冩冪冫冬冭冮冯冰冱冲决冴况冶冷冸冹冺冻冼冽冾冿净凁凂凃凄凅准凇凈凉凊凋凌凍凎减凐凑凒凓凔凕凖凗凘凙凚凛凜凝凞凟几凡凢凣凤凥処凧凨凩凪凫凬凭凮凯凰凱凲凳凴凵凶凷凸凹出击凼函凾凿劀劁劂劃劄劅劆劇劈劉劊劋劌劍劎劏劐劑劒劓劔劕劖劗劘劙劚力劜劝办功加务劢劣劤劥劦劧动助努劫劬劭劮劯劰励劲劳労劵劶劷劸効劺劻劼劽劾势勀勁勂勃勄勅勆勇勈勉勊勋勌勍勎勏勐勑勒勓勔動勖勗勘務勚勛勜勝勞募勠勡勢勣勤勥勦勧勨勩勪勫勬勭勮勯勰勱勲勳勴勵勶勷勸勹勺勻勼勽勾勿厀厁厂厃厄厅历厇厈厉厊压厌厍厎厏厐厑厒厓厔厕厖厗厘厙厚厛厜厝厞原厠厡厢厣厤厥厦厧厨厩厪厫厬厭厮厯厰厱厲厳厴厵厶厷厸厹厺去厼厽厾县叀叁参參叄叅叆叇又叉及友双反収叏叐发叒叓叔叕取受变叙叚叛叜叝叞叟叠叡叢口古句另叧叨叩只叫召叭叮可台叱史右叴叵叶号司叹叺叻叼叽叾叿咀咁咂咃咄咅咆咇咈咉咊咋和咍咎咏咐咑咒咓咔咕咖咗咘咙咚咛咜咝咞咟咠咡咢咣咤咥咦咧咨咩咪咫咬咭咮咯咰咱咲咳咴咵咶咷咸咹咺咻咼咽咾咿哀品哂哃哄哅哆哇哈哉哊哋哌响哎哏哐哑哒哓哔哕哖哗哘哙哚哛哜哝哞哟哠員哢哣哤哥哦哧哨哩哪哫哬哭哮哯哰哱哲哳哴哵哶哷哸哹哺哻哼哽哾哿喀喁喂喃善喅喆喇喈喉喊喋喌喍喎喏喐喑喒喓喔喕喖喗喘喙喚喛喜喝喞喟喠喡喢喣喤喥喦喧喨喩喪喫喬喭單喯喰喱喲喳喴喵営喷喸喹喺喻喼喽喾喿嗀嗁嗂嗃嗄嗅嗆嗇嗈嗉嗊嗋嗌嗍嗎嗏嗐嗑嗒嗓嗔嗕嗖嗗嗘嗙嗚嗛嗜嗝嗞嗟嗠嗡嗢嗣嗤嗥嗦嗧嗨嗩嗪嗫嗬嗭嗮嗯嗰嗱嗲嗳嗴嗵嗶嗷嗸嗹嗺嗻嗼嗽嗾嗿嚀嚁嚂嚃嚄嚅嚆嚇嚈嚉嚊嚋嚌嚍嚎嚏嚐嚑嚒嚓嚔嚕嚖嚗嚘嚙嚚嚛嚜嚝嚞嚟嚠嚡嚢嚣嚤嚥嚦嚧嚨嚩嚪嚫嚬嚭嚮嚯嚰嚱嚲嚳嚴嚵嚶嚷嚸嚹嚺嚻嚼嚽嚾嚿囀囁囂囃囄囅囆囇囈囉囊囋囌囍囎囏囐囑囒囓囔囕囖囗囘囙囚四囜囝回囟因囡团団囤囥囦囧囨囩囪囫囬园囮囯困囱囲図围囵囶囷囸囹固囻囼国图囿垀垁垂垃垄垅垆垇垈垉垊型垌垍垎垏垐垑垒垓垔垕垖垗垘垙垚垛垜垝垞垟垠垡垢垣垤垥垦垧垨垩垪垫垬垭垮垯垰垱垲垳垴垵垶垷垸垹垺垻垼垽垾垿埀埁埂埃埄埅埆埇埈埉埊埋埌埍城埏埐埑埒埓埔埕埖埗埘埙埚埛埜埝埞域埠埡埢埣埤埥埦埧埨埩埪埫埬埭埮埯埰埱埲埳埴埵埶執埸培基埻埼埽埾埿墀墁墂境墄墅墆墇墈墉墊墋墌墍墎墏墐墑墒墓墔墕墖増墘墙墚墛墜墝增墟墠墡墢墣墤墥墦墧墨墩墪墫墬墭墮墯墰墱墲墳墴墵墶墷墸墹墺墻墼墽墾墿壀壁壂壃壄壅壆壇壈壉壊壋壌壍壎壏壐壑壒壓壔壕壖壗壘壙壚壛壜壝壞壟壠壡壢壣壤壥壦壧壨壩壪士壬壭壮壯声壱売壳壴壵壶壷壸壹壺壻壼壽壾壿妀妁如妃妄妅妆妇妈妉妊妋妌妍妎妏妐妑妒妓妔妕妖妗妘妙妚妛妜妝妞妟妠妡妢妣妤妥妦妧妨妩妪妫妬妭妮妯妰妱妲妳妴妵妶妷妸妹妺妻妼妽妾妿姀姁姂姃姄姅姆姇姈姉姊始姌姍姎姏姐姑姒姓委姕姖姗姘姙姚姛姜姝姞姟姠姡姢姣姤姥姦姧姨姩姪姫姬姭姮姯姰姱姲姳姴姵姶姷姸姹姺姻姼姽姾姿媀媁媂媃媄媅媆媇媈媉媊媋媌媍媎媏媐媑媒媓媔媕媖媗媘媙媚媛媜媝媞媟媠媡媢媣媤媥媦媧媨媩媪媫媬媭媮媯媰媱媲媳媴媵媶媷媸媹媺媻媼媽媾媿嫀嫁嫂嫃嫄嫅嫆嫇嫈嫉嫊嫋嫌嫍嫎嫏嫐嫑嫒嫓嫔嫕嫖嫗嫘嫙嫚嫛嫜嫝嫞嫟嫠嫡嫢嫣嫤嫥嫦嫧嫨嫩嫪嫫嫬嫭嫮嫯嫰嫱嫲嫳嫴嫵嫶嫷嫸嫹嫺嫻嫼嫽嫾嫿宀宁宂它宄宅宆宇守安宊宋完宍宎宏宐宑宒宓宔宕宖宗官宙定宛宜宝实実宠审客宣室宥宦宧宨宩宪宫宬宭宮宯宰宱宲害宴宵家宷宸容宺宻宼宽宾宿寀寁寂寃寄寅密寇寈寉寊寋富寍寎寏寐寑寒寓寔寕寖寗寘寙寚寛寜寝寞察寠寡寢寣寤寥實寧寨審寪寫寬寭寮寯寰寱寲寳寴寵寶寷寸对寺寻导寽対寿岀岁岂岃岄岅岆岇岈岉岊岋岌岍岎岏岐岑岒岓岔岕岖岗岘岙岚岛岜岝岞岟岠岡岢岣岤岥岦岧岨岩岪岫岬岭岮岯岰岱岲岳岴岵岶岷岸岹岺岻岼岽岾岿峀峁峂峃峄峅峆峇峈峉峊峋峌峍峎峏峐峑峒峓峔峕峖峗峘峙峚峛峜峝峞峟峠峡峢峣峤峥峦峧峨峩峪峫峬峭峮峯峰峱峲峳峴峵島峷峸峹峺峻峼峽峾峿嶀嶁嶂嶃嶄嶅嶆嶇嶈嶉嶊嶋嶌嶍嶎嶏嶐嶑嶒嶓嶔嶕嶖嶗嶘嶙嶚嶛嶜嶝嶞嶟嶠嶡嶢嶣嶤嶥嶦嶧嶨嶩嶪嶫嶬嶭嶮嶯嶰嶱嶲嶳嶴嶵嶶嶷嶸嶹嶺嶻嶼嶽嶾嶿巀巁巂巃巄巅巆巇巈巉巊巋巌巍巎巏巐巑巒巓巔巕巖巗巘巙巚巛巜川州巟巠巡巢巣巤工左巧巨巩巪巫巬巭差巯巰己已巳巴巵巶巷巸巹巺巻巼巽巾巿庀庁庂広庄庅庆庇庈庉床庋庌庍庎序庐庑庒库应底庖店庘庙庚庛府庝庞废庠庡庢庣庤庥度座庨庩庪庫庬庭庮庯庰庱庲庳庴庵庶康庸庹庺庻庼庽庾庿廀廁廂廃廄廅廆廇廈廉廊廋廌廍廎廏廐廑廒廓廔廕廖廗廘廙廚廛廜廝廞廟廠廡廢廣廤廥廦廧廨廩廪廫廬廭廮廯廰廱廲廳廴廵延廷廸廹建廻廼廽廾廿往征徂徃径待徆徇很徉徊律後徍徎徏徐徑徒従徔徕徖得徘徙徚徛徜徝從徟徠御徢徣徤徥徦徧徨復循徫徬徭微徯徰徱徲徳徴徵徶德徸徹徺徻徼徽徾徿忀忁忂心忄必忆忇忈忉忊忋忌忍忎忏忐忑忒忓忔忕忖志忘忙忚忛応忝忞忟忠忡忢忣忤忥忦忧忨忩忪快忬忭忮忯忰忱忲忳忴念忶忷忸忹忺忻忼忽忾忿悀悁悂悃悄悅悆悇悈悉悊悋悌悍悎悏悐悑悒悓悔悕悖悗悘悙悚悛悜悝悞悟悠悡悢患悤悥悦悧您悩悪悫悬悭悮悯悰悱悲悳悴悵悶悷悸悹悺悻悼悽悾悿惀惁惂惃惄情惆惇惈惉惊惋惌惍惎惏惐惑惒惓惔惕惖惗惘惙惚惛惜惝惞惟惠惡惢惣惤惥惦惧惨惩惪惫惬惭惮惯惰惱惲想惴惵惶惷惸惹惺惻惼惽惾惿憀憁憂憃憄憅憆憇憈憉憊憋憌憍憎憏憐憑憒憓憔憕憖憗憘憙憚憛憜憝憞憟憠憡憢憣憤憥憦憧憨憩憪憫憬憭憮憯憰憱憲憳憴憵憶憷憸憹憺憻憼憽憾憿懀懁懂懃懄懅懆懇懈應懊懋懌懍懎懏懐懑懒懓懔懕懖懗懘懙懚懛懜懝懞懟懠懡懢懣懤懥懦懧懨懩懪懫懬懭懮懯懰懱懲懳懴懵懶懷懸懹懺懻懼懽懾懿技抁抂抃抄抅抆抇抈抉把抋抌抍抎抏抐抑抒抓抔投抖抗折抙抚抛抜抝択抟抠抡抢抣护报抦抧抨抩抪披抬抭抮抯抰抱抲抳抴抵抶抷抸抹抺抻押抽抾抿拀拁拂拃拄担拆拇拈拉拊拋拌拍拎拏拐拑拒拓拔拕拖拗拘拙拚招拜拝拞拟拠拡拢拣拤拥拦拧拨择拪拫括拭拮拯拰拱拲拳拴拵拶拷拸拹拺拻拼拽拾拿掀掁掂掃掄掅掆掇授掉掊掋掌掍掎掏掐掑排掓掔掕掖掗掘掙掚掛掜掝掞掟掠採探掣掤接掦控推掩措掫掬掭掮掯掰掱掲掳掴掵掶掷掸掹掺掻掼掽掾掿揀揁揂揃揄揅揆揇揈揉揊揋揌揍揎描提揑插揓揔揕揖揗揘揙揚換揜揝揞揟揠握揢揣揤揥揦揧揨揩揪揫揬揭揮揯揰揱揲揳援揵揶揷揸揹揺揻揼揽揾揿撀撁撂撃撄撅撆撇撈撉撊撋撌撍撎撏撐撑撒撓撔撕撖撗撘撙撚撛撜撝撞撟撠撡撢撣撤撥撦撧撨撩撪撫撬播撮撯撰撱撲撳撴撵撶撷撸撹撺撻撼撽撾撿擀擁擂擃擄擅擆擇擈擉擊擋擌操擎擏擐擑擒擓擔擕擖擗擘擙據擛擜擝擞擟擠擡擢擣擤擥擦擧擨擩擪擫擬擭擮擯擰擱擲擳擴擵擶擷擸擹擺擻擼擽擾擿斀斁斂斃斄斅斆文斈斉斊斋斌斍斎斏斐斑斒斓斔斕斖斗斘料斚斛斜斝斞斟斠斡斢斣斤斥斦斧斨斩斪斫斬断斮斯新斱斲斳斴斵斶斷斸方斺斻於施斾斿旀旁旂旃旄旅旆旇旈旉旊旋旌旍旎族旐旑旒旓旔旕旖旗旘旙旚旛旜旝旞旟无旡既旣旤日旦旧旨早旪旫旬旭旮旯旰旱旲旳旴旵时旷旸旹旺旻旼旽旾旿暀暁暂暃暄暅暆暇暈暉暊暋暌暍暎暏暐暑暒暓暔暕暖暗暘暙暚暛暜暝暞暟暠暡暢暣暤暥暦暧暨暩暪暫暬暭暮暯暰暱暲暳暴暵暶暷暸暹暺暻暼暽暾暿曀曁曂曃曄曅曆曇曈曉曊曋曌曍曎曏曐曑曒曓曔曕曖曗曘曙曚曛曜曝曞曟曠曡曢曣曤曥曦曧曨曩曪曫曬曭曮曯曰曱曲曳更曵曶曷書曹曺曻曼曽曾替枀极枂枃构枅枆枇枈枉枊枋枌枍枎枏析枑枒枓枔枕枖林枘枙枚枛果枝枞枟枠枡枢枣枤枥枦枧枨枩枪枫枬枭枮枯枰枱枲枳枴枵架枷枸枹枺枻枼枽枾枿柀柁柂柃柄柅柆柇柈柉柊柋柌柍柎柏某柑柒染柔柕柖柗柘柙柚柛柜柝柞柟柠柡柢柣柤查柦柧柨柩柪柫柬柭柮柯柰柱柲柳柴柵柶柷柸柹柺査柼柽柾柿梀梁梂梃梄梅梆梇梈梉梊梋梌梍梎梏梐梑梒梓梔梕梖梗梘梙梚梛梜條梞梟梠梡梢梣梤梥梦梧梨梩梪梫梬梭梮梯械梱梲梳梴梵梶梷梸梹梺梻梼梽梾梿检棁棂棃棄棅棆棇棈棉棊棋棌棍棎棏棐棑棒棓棔棕棖棗棘棙棚棛棜棝棞棟棠棡棢棣棤棥棦棧棨棩棪棫棬棭森棯棰棱棲棳棴棵棶棷棸棹棺棻棼棽棾棿榀榁概榃榄榅榆榇榈榉榊榋榌榍榎榏榐榑榒榓榔榕榖榗榘榙榚榛榜榝榞榟榠榡榢榣榤榥榦榧榨榩榪榫榬榭榮榯榰榱榲榳榴榵榶榷榸榹榺榻榼榽榾榿槀槁槂槃槄槅槆槇槈槉槊構槌槍槎槏槐槑槒槓槔槕槖槗様槙槚槛槜槝槞槟槠槡槢槣槤槥槦槧槨槩槪槫槬槭槮槯槰槱槲槳槴槵槶槷槸槹槺槻槼槽槾槿檀檁檂檃檄檅檆檇檈檉檊檋檌檍檎檏檐檑檒檓檔檕檖檗檘檙檚檛檜檝檞檟檠檡檢檣檤檥檦檧檨檩檪檫檬檭檮檯檰檱檲檳檴檵檶檷檸檹檺檻檼檽檾檿櫀櫁櫂櫃櫄櫅櫆櫇櫈櫉櫊櫋櫌櫍櫎櫏櫐櫑櫒櫓櫔櫕櫖櫗櫘櫙櫚櫛櫜櫝櫞櫟櫠櫡櫢櫣櫤櫥櫦櫧櫨櫩櫪櫫櫬櫭櫮櫯櫰櫱櫲櫳櫴櫵櫶櫷櫸櫹櫺櫻櫼櫽櫾櫿殀殁殂殃殄殅殆殇殈殉殊残殌殍殎殏殐殑殒殓殔殕殖殗殘殙殚殛殜殝殞殟殠殡殢殣殤殥殦殧殨殩殪殫殬殭殮殯殰殱殲殳殴段殶殷殸殹殺殻殼殽殾殿毀毁毂毃毄毅毆毇毈毉毊毋毌母毎每毐毑毒毓比毕毖毗毘毙毚毛毜毝毞毟毠毡毢毣毤毥毦毧毨毩毪毫毬毭毮毯毰毱毲毳毴毵毶毷毸毹毺毻毼毽毾毿沀沁沂沃沄沅沆沇沈沉沊沋沌沍沎沏沐沑沒沓沔沕沖沗沘沙沚沛沜沝沞沟沠没沢沣沤沥沦沧沨沩沪沫沬沭沮沯沰沱沲河沴沵沶沷沸油沺治沼沽沾沿泀況泂泃泄泅泆泇泈泉泊泋泌泍泎泏泐泑泒泓泔法泖泗泘泙泚泛泜泝泞泟泠泡波泣泤泥泦泧注泩泪泫泬泭泮泯泰泱泲泳泴泵泶泷泸泹泺泻泼泽泾泿涀涁涂涃涄涅涆涇消涉涊涋涌涍涎涏涐涑涒涓涔涕涖涗涘涙涚涛涜涝涞涟涠涡涢涣涤涥润涧涨涩涪涫涬涭涮涯涰涱液涳涴涵涶涷涸涹涺涻涼涽涾涿淀淁淂淃淄淅淆淇淈淉淊淋淌淍淎淏淐淑淒淓淔淕淖淗淘淙淚淛淜淝淞淟淠淡淢淣淤淥淦淧淨淩淪淫淬淭淮淯淰深淲淳淴淵淶混淸淹淺添淼淽淾淿満溁溂溃溄溅溆溇溈溉溊溋溌溍溎溏源溑溒溓溔溕準溗溘溙溚溛溜溝溞溟溠溡溢溣溤溥溦溧溨溩溪溫溬溭溮溯溰溱溲溳溴溵溶溷溸溹溺溻溼溽溾溿滀滁滂滃滄滅滆滇滈滉滊滋滌滍滎滏滐滑滒滓滔滕滖滗滘滙滚滛滜滝滞滟滠满滢滣滤滥滦滧滨滩滪滫滬滭滮滯滰滱滲滳滴滵滶滷滸滹滺滻滼滽滾滿澀澁澂澃澄澅澆澇澈澉澊澋澌澍澎澏澐澑澒澓澔澕澖澗澘澙澚澛澜澝澞澟澠澡澢澣澤澥澦澧澨澩澪澫澬澭澮澯澰澱澲澳澴澵澶澷澸澹澺澻澼澽澾澿激濁濂濃濄濅濆濇濈濉濊濋濌濍濎濏濐濑濒濓濔濕濖濗濘濙濚濛濜濝濞濟濠濡濢濣濤濥濦濧濨濩濪濫濬濭濮濯濰濱濲濳濴濵濶濷濸濹濺濻濼濽濾濿炀炁炂炃炄炅炆炇炈炉炊炋炌炍炎炏炐炑炒炓炔炕炖炗炘炙炚炛炜炝炞炟炠炡炢炣炤炥炦炧炨炩炪炫炬炭炮炯炰炱炲炳炴炵炶炷炸点為炻炼炽炾炿烀烁烂烃烄烅烆烇烈烉烊烋烌烍烎烏烐烑烒烓烔烕烖烗烘烙烚烛烜烝烞烟烠烡烢烣烤烥烦烧烨烩烪烫烬热烮烯烰烱烲烳烴烵烶烷烸烹烺烻烼烽烾烿熀熁熂熃熄熅熆熇熈熉熊熋熌熍熎熏熐熑熒熓熔熕熖熗熘熙熚熛熜熝熞熟熠熡熢熣熤熥熦熧熨熩熪熫熬熭熮熯熰熱熲熳熴熵熶熷熸熹熺熻熼熽熾熿燀燁燂燃燄燅燆燇燈燉燊燋燌燍燎燏燐燑燒燓燔燕燖燗燘燙燚燛燜燝燞營燠燡燢燣燤燥燦燧燨燩燪燫燬燭燮燯燰燱燲燳燴燵燶燷燸燹燺燻燼燽燾燿犀犁犂犃犄犅犆犇犈犉犊犋犌犍犎犏犐犑犒犓犔犕犖犗犘犙犚犛犜犝犞犟犠犡犢犣犤犥犦犧犨犩犪犫犬犭犮犯犰犱犲犳犴犵状犷犸犹犺犻犼犽犾犿狀狁狂狃狄狅狆狇狈狉狊狋狌狍狎狏狐狑狒狓狔狕狖狗狘狙狚狛狜狝狞狟狠狡狢狣狤狥狦狧狨狩狪狫独狭狮狯狰狱狲狳狴狵狶狷狸狹狺狻狼狽狾狿玀玁玂玃玄玅玆率玈玉玊王玌玍玎玏玐玑玒玓玔玕玖玗玘玙玚玛玜玝玞玟玠玡玢玣玤玥玦玧玨玩玪玫玬玭玮环现玱玲玳玴玵玶玷玸玹玺玻玼玽玾玿珀珁珂珃珄珅珆珇珈珉珊珋珌珍珎珏珐珑珒珓珔珕珖珗珘珙珚珛珜珝珞珟珠珡珢珣珤珥珦珧珨珩珪珫珬班珮珯珰珱珲珳珴珵珶珷珸珹珺珻珼珽現珿璀璁璂璃璄璅璆璇璈璉璊璋璌璍璎璏璐璑璒璓璔璕璖璗璘璙璚璛璜璝璞璟璠璡璢璣璤璥璦璧璨璩璪璫璬璭璮璯環璱璲璳璴璵璶璷璸璹璺璻璼璽璾璿瓀瓁瓂瓃瓄瓅瓆瓇瓈瓉瓊瓋瓌瓍瓎瓏瓐瓑瓒瓓瓔瓕瓖瓗瓘瓙瓚瓛瓜瓝瓞瓟瓠瓡瓢瓣瓤瓥瓦瓧瓨瓩瓪瓫瓬瓭瓮瓯瓰瓱瓲瓳瓴瓵瓶瓷瓸瓹瓺瓻瓼瓽瓾瓿疀疁疂疃疄疅疆疇疈疉疊疋疌疍疎疏疐疑疒疓疔疕疖疗疘疙疚疛疜疝疞疟疠疡疢疣疤疥疦疧疨疩疪疫疬疭疮疯疰疱疲疳疴疵疶疷疸疹疺疻疼疽疾疿痀痁痂痃痄病痆症痈痉痊痋痌痍痎痏痐痑痒痓痔痕痖痗痘痙痚痛痜痝痞痟痠痡痢痣痤痥痦痧痨痩痪痫痬痭痮痯痰痱痲痳痴痵痶痷痸痹痺痻痼痽痾痿皀皁皂皃的皅皆皇皈皉皊皋皌皍皎皏皐皑皒皓皔皕皖皗皘皙皚皛皜皝皞皟皠皡皢皣皤皥皦皧皨皩皪皫皬皭皮皯皰皱皲皳皴皵皶皷皸皹皺皻皼皽皾皿盀盁盂盃盄盅盆盇盈盉益盋盌盍盎盏盐监盒盓盔盕盖盗盘盙盚盛盜盝盞盟盠盡盢監盤盥盦盧盨盩盪盫盬盭目盯盰盱盲盳直盵盶盷相盹盺盻盼盽盾盿瞀瞁瞂瞃瞄瞅瞆瞇瞈瞉瞊瞋瞌瞍瞎瞏瞐瞑瞒瞓瞔瞕瞖瞗瞘瞙瞚瞛瞜瞝瞞瞟瞠瞡瞢瞣瞤瞥瞦瞧瞨瞩瞪瞫瞬瞭瞮瞯瞰瞱瞲瞳瞴瞵瞶瞷瞸瞹瞺瞻瞼瞽瞾瞿矀矁矂矃矄矅矆矇矈矉矊矋矌矍矎矏矐矑矒矓矔矕矖矗矘矙矚矛矜矝矞矟矠矡矢矣矤知矦矧矨矩矪矫矬短矮矯矰矱矲石矴矵矶矷矸矹矺矻矼矽矾矿碀碁碂碃碄碅碆碇碈碉碊碋碌碍碎碏碐碑碒碓碔碕碖碗碘碙碚碛碜碝碞碟碠碡碢碣碤碥碦碧碨碩碪碫碬碭碮碯碰碱碲碳碴碵碶碷碸碹確碻碼碽碾碿磀磁磂磃磄磅磆磇磈磉磊磋磌磍磎磏磐磑磒磓磔磕磖磗磘磙磚磛磜磝磞磟磠磡磢磣磤磥磦磧磨磩磪磫磬磭磮磯磰磱磲磳磴磵磶磷磸磹磺磻磼磽磾磿禀禁禂禃禄禅禆禇禈禉禊禋禌禍禎福禐禑禒禓禔禕禖禗禘禙禚禛禜禝禞禟禠禡禢禣禤禥禦禧禨禩禪禫禬禭禮禯禰禱禲禳禴禵禶禷禸禹禺离禼禽禾禿秀私秂秃秄秅秆秇秈秉秊秋秌种秎秏秐科秒秓秔秕秖秗秘秙秚秛秜秝秞租秠秡秢秣秤秥秦秧秨秩秪秫秬秭秮积称秱秲秳秴秵秶秷秸秹秺移秼秽秾秿窀突窂窃窄窅窆窇窈窉窊窋窌窍窎窏窐窑窒窓窔窕窖窗窘窙窚窛窜窝窞窟窠窡窢窣窤窥窦窧窨窩窪窫窬窭窮窯窰窱窲窳窴窵窶窷窸窹窺窻窼窽窾窿竀竁竂竃竄竅竆竇竈竉竊立竌竍竎竏竐竑竒竓竔竕竖竗竘站竚竛竜竝竞竟章竡竢竣竤童竦竧竨竩竪竫竬竭竮端竰竱竲竳竴竵競竷竸竹竺竻竼竽竾竿简箁箂箃箄箅箆箇箈箉箊箋箌箍箎箏箐箑箒箓箔箕箖算箘箙箚箛箜箝箞箟箠管箢箣箤箥箦箧箨箩箪箫箬箭箮箯箰箱箲箳箴箵箶箷箸箹箺箻箼箽箾箿節篁篂篃範篅篆篇篈築篊篋篌篍篎篏篐篑篒篓篔篕篖篗篘篙篚篛篜篝篞篟篠篡篢篣篤篥篦篧篨篩篪篫篬篭篮篯篰篱篲篳篴篵篶篷篸篹篺篻篼篽篾篿粀粁粂粃粄粅粆粇粈粉粊粋粌粍粎粏粐粑粒粓粔粕粖粗粘粙粚粛粜粝粞粟粠粡粢粣粤粥粦粧粨粩粪粫粬粭粮粯粰粱粲粳粴粵粶粷粸粹粺粻粼粽精粿糀糁糂糃糄糅糆糇糈糉糊糋糌糍糎糏糐糑糒糓糔糕糖糗糘糙糚糛糜糝糞糟糠糡糢糣糤糥糦糧糨糩糪糫糬糭糮糯糰糱糲糳糴糵糶糷糸糹糺系糼糽糾糿綀綁綂綃綄綅綆綇綈綉綊綋綌綍綎綏綐綑綒經綔綕綖綗綘継続綛綜綝綞綟綠綡綢綣綤綥綦綧綨綩綪綫綬維綮綯綰綱網綳綴綵綶綷綸綹綺綻綼綽綾綿緀緁緂緃緄緅緆緇緈緉緊緋緌緍緎総緐緑緒緓緔緕緖緗緘緙線緛緜緝緞緟締緡緢緣緤緥緦緧編緩緪緫緬緭緮緯緰緱緲緳練緵緶緷緸緹緺緻緼緽緾緿纀纁纂纃纄纅纆纇纈纉纊纋續纍纎纏纐纑纒纓纔纕纖纗纘纙纚纛纜纝纞纟纠纡红纣纤纥约级纨纩纪纫纬纭纮纯纰纱纲纳纴纵纶纷纸纹纺纻纼纽纾线绀绁绂练组绅细织终绉绊绋绌绍绎经绐绑绒结绔绕绖绗绘给绚绛络绝绞统绠绡绢绣绤绥绦继绨绩绪绫绬续绮绯绰绱绲绳维绵绶绷绸绹绺绻综绽绾绿羀羁羂羃羄羅羆羇羈羉羊羋羌羍美羏羐羑羒羓羔羕羖羗羘羙羚羛羜羝羞羟羠羡羢羣群羥羦羧羨義羪羫羬羭羮羯羰羱羲羳羴羵羶羷羸羹羺羻羼羽羾羿翀翁翂翃翄翅翆翇翈翉翊翋翌翍翎翏翐翑習翓翔翕翖翗翘翙翚翛翜翝翞翟翠翡翢翣翤翥翦翧翨翩翪翫翬翭翮翯翰翱翲翳翴翵翶翷翸翹翺翻翼翽翾翿肀肁肂肃肄肅肆肇肈肉肊肋肌肍肎肏肐肑肒肓肔肕肖肗肘肙肚肛肜肝肞肟肠股肢肣肤肥肦肧肨肩肪肫肬肭肮肯肰肱育肳肴肵肶肷肸肹肺肻肼肽肾肿胀胁胂胃胄胅胆胇胈胉胊胋背胍胎胏胐胑胒胓胔胕胖胗胘胙胚胛胜胝胞胟胠胡胢胣胤胥胦胧胨胩胪胫胬胭胮胯胰胱胲胳胴胵胶胷胸胹胺胻胼能胾胿膀膁膂膃膄膅膆膇膈膉膊膋膌膍膎膏膐膑膒膓膔膕膖膗膘膙膚膛膜膝膞膟膠膡膢膣膤膥膦膧膨膩膪膫膬膭膮膯膰膱膲膳膴膵膶膷膸膹膺膻膼膽膾膿臀臁臂臃臄臅臆臇臈臉臊臋臌臍臎臏臐臑臒臓臔臕臖臗臘臙臚臛臜臝臞臟臠臡臢臣臤臥臦臧臨臩自臫臬臭臮臯臰臱臲至致臵臶臷臸臹臺臻臼臽臾臿芀芁节芃芄芅芆芇芈芉芊芋芌芍芎芏芐芑芒芓芔芕芖芗芘芙芚芛芜芝芞芟芠芡芢芣芤芥芦芧芨芩芪芫芬芭芮芯芰花芲芳芴芵芶芷芸芹芺芻芼芽芾芿苀苁苂苃苄苅苆苇苈苉苊苋苌苍苎苏苐苑苒苓苔苕苖苗苘苙苚苛苜苝苞苟苠苡苢苣苤若苦苧苨苩苪苫苬苭苮苯苰英苲苳苴苵苶苷苸苹苺苻苼苽苾苿莀莁莂莃莄莅莆莇莈莉莊莋莌莍莎莏莐莑莒莓莔莕莖莗莘莙莚莛莜莝莞莟莠莡莢莣莤莥莦莧莨莩莪莫莬莭莮莯莰莱莲莳莴莵莶获莸莹莺莻莼莽莾莿菀菁菂菃菄菅菆菇菈菉菊菋菌菍菎菏菐菑菒菓菔菕菖菗菘菙菚菛菜菝菞菟菠菡菢菣菤菥菦菧菨菩菪菫菬菭菮華菰菱菲菳菴菵菶菷菸菹菺菻菼菽菾菿蒀蒁蒂蒃蒄蒅蒆蒇蒈蒉蒊蒋蒌蒍蒎蒏蒐蒑蒒蒓蒔蒕蒖蒗蒘蒙蒚蒛蒜蒝蒞蒟蒠蒡蒢蒣蒤蒥蒦蒧蒨蒩蒪蒫蒬蒭蒮蒯蒰蒱蒲蒳蒴蒵蒶蒷蒸蒹蒺蒻蒼蒽蒾蒿蓀蓁蓂蓃蓄蓅蓆蓇蓈蓉蓊蓋蓌蓍蓎蓏蓐蓑蓒蓓蓔蓕蓖蓗蓘蓙蓚蓛蓜蓝蓞蓟蓠蓡蓢蓣蓤蓥蓦蓧蓨蓩蓪蓫蓬蓭蓮蓯蓰蓱蓲蓳蓴蓵蓶蓷蓸蓹蓺蓻蓼蓽蓾蓿薀薁薂薃薄薅薆薇薈薉薊薋薌薍薎薏薐薑薒薓薔薕薖薗薘薙薚薛薜薝薞薟薠薡薢薣薤薥薦薧薨薩薪薫薬薭薮薯薰薱薲薳薴薵薶薷薸薹薺薻薼薽薾薿藀藁藂藃藄藅藆藇藈藉藊藋藌藍藎藏藐藑藒藓藔藕藖藗藘藙藚藛藜藝藞藟藠藡藢藣藤藥藦藧藨藩藪藫藬藭藮藯藰藱藲藳藴藵藶藷藸藹藺藻藼藽藾藿蚀蚁蚂蚃蚄蚅蚆蚇蚈蚉蚊蚋蚌蚍蚎蚏蚐蚑蚒蚓蚔蚕蚖蚗蚘蚙蚚蚛蚜蚝蚞蚟蚠蚡蚢蚣蚤蚥蚦蚧蚨蚩蚪蚫蚬蚭蚮蚯蚰蚱蚲蚳蚴蚵蚶蚷蚸蚹蚺蚻蚼蚽蚾蚿蛀蛁蛂蛃蛄蛅蛆蛇蛈蛉蛊蛋蛌蛍蛎蛏蛐蛑蛒蛓蛔蛕蛖蛗蛘蛙蛚蛛蛜蛝蛞蛟蛠蛡蛢蛣蛤蛥蛦蛧蛨蛩蛪蛫蛬蛭蛮蛯蛰蛱蛲蛳蛴蛵蛶蛷蛸蛹蛺蛻蛼蛽蛾蛿螀螁螂螃螄螅螆螇螈螉螊螋螌融螎螏螐螑螒螓螔螕螖螗螘螙螚螛螜螝螞螟螠螡螢螣螤螥螦螧螨螩螪螫螬螭螮螯螰螱螲螳螴螵螶螷螸螹螺螻螼螽螾螿蟀蟁蟂蟃蟄蟅蟆蟇蟈蟉蟊蟋蟌蟍蟎蟏蟐蟑蟒蟓蟔蟕蟖蟗蟘蟙蟚蟛蟜蟝蟞蟟蟠蟡蟢蟣蟤蟥蟦蟧蟨蟩蟪蟫蟬蟭蟮蟯蟰蟱蟲蟳蟴蟵蟶蟷蟸蟹蟺蟻蟼蟽蟾蟿袀袁袂袃袄袅袆袇袈袉袊袋袌袍袎袏袐袑袒袓袔袕袖袗袘袙袚袛袜袝袞袟袠袡袢袣袤袥袦袧袨袩袪被袬袭袮袯袰袱袲袳袴袵袶袷袸袹袺袻袼袽袾袿裀裁裂裃裄装裆裇裈裉裊裋裌裍裎裏裐裑裒裓裔裕裖裗裘裙裚裛補裝裞裟裠裡裢裣裤裥裦裧裨裩裪裫裬裭裮裯裰裱裲裳裴裵裶裷裸裹裺裻裼製裾裿覀要覂覃覄覅覆覇覈覉覊見覌覍覎規覐覑覒覓覔覕視覗覘覙覚覛覜覝覞覟覠覡覢覣覤覥覦覧覨覩親覫覬覭覮覯覰覱覲観覴覵覶覷覸覹覺覻覼覽覾覿觀见观觃规觅视觇览觉觊觋觌觍觎觏觐觑角觓觔觕觖觗觘觙觚觛觜觝觞觟觠觡觢解觤觥触觧觨觩觪觫觬觭觮觯觰觱觲觳觴觵觶觷觸觹觺觻觼觽觾觿誀誁誂誃誄誅誆誇誈誉誊誋誌認誎誏誐誑誒誓誔誕誖誗誘誙誚誛誜誝語誟誠誡誢誣誤誥誦誧誨誩說誫説読誮誯誰誱課誳誴誵誶誷誸誹誺誻誼誽誾調諀諁諂諃諄諅諆談諈諉諊請諌諍諎諏諐諑諒諓諔諕論諗諘諙諚諛諜諝諞諟諠諡諢諣諤諥諦諧諨諩諪諫諬諭諮諯諰諱諲諳諴諵諶諷諸諹諺諻諼諽諾諿讀讁讂讃讄讅讆讇讈讉變讋讌讍讎讏讐讑讒讓讔讕讖讗讘讙讚讛讜讝讞讟讠计订讣认讥讦讧讨让讪讫讬训议讯记讱讲讳讴讵讶讷许讹论讻讼讽设访诀证诂诃评诅识诇诈诉诊诋诌词诎诏诐译诒诓诔试诖诗诘诙诚诛诜话诞诟诠诡询诣诤该详诧诨诩诪诫诬语诮误诰诱诲诳说诵诶请诸诹诺读诼诽课诿貀貁貂貃貄貅貆貇貈貉貊貋貌貍貎貏貐貑貒貓貔貕貖貗貘貙貚貛貜貝貞貟負財貢貣貤貥貦貧貨販貪貫責貭貮貯貰貱貲貳貴貵貶買貸貹貺費貼貽貾貿賀賁賂賃賄賅賆資賈賉賊賋賌賍賎賏賐賑賒賓賔賕賖賗賘賙賚賛賜賝賞賟賠賡賢賣賤賥賦賧賨賩質賫賬賭賮賯賰賱賲賳賴賵賶賷賸賹賺賻購賽賾賿趀趁趂趃趄超趆趇趈趉越趋趌趍趎趏趐趑趒趓趔趕趖趗趘趙趚趛趜趝趞趟趠趡趢趣趤趥趦趧趨趩趪趫趬趭趮趯趰趱趲足趴趵趶趷趸趹趺趻趼趽趾趿跀跁跂跃跄跅跆跇跈跉跊跋跌跍跎跏跐跑跒跓跔跕跖跗跘跙跚跛跜距跞跟跠跡跢跣跤跥跦跧跨跩跪跫跬跭跮路跰跱跲跳跴践跶跷跸跹跺跻跼跽跾跿躀躁躂躃躄躅躆躇躈躉躊躋躌躍躎躏躐躑躒躓躔躕躖躗躘躙躚躛躜躝躞躟躠躡躢躣躤躥躦躧躨躩躪身躬躭躮躯躰躱躲躳躴躵躶躷躸躹躺躻躼躽躾躿軀軁軂軃軄軅軆軇軈軉車軋軌軍軎軏軐軑軒軓軔軕軖軗軘軙軚軛軜軝軞軟軠軡転軣軤軥軦軧軨軩軪軫軬軭軮軯軰軱軲軳軴軵軶軷軸軹軺軻軼軽軾軿辀辁辂较辄辅辆辇辈辉辊辋辌辍辎辏辐辑辒输辔辕辖辗辘辙辚辛辜辝辞辟辠辡辢辣辤辥辦辧辨辩辪辫辬辭辮辯辰辱農辳辴辵辶辷辸边辺辻込辽达辿迀迁迂迃迄迅迆过迈迉迊迋迌迍迎迏运近迒迓返迕迖迗还这迚进远违连迟迠迡迢迣迤迥迦迧迨迩迪迫迬迭迮迯述迱迲迳迴迵迶迷迸迹迺迻迼追迾迿邀邁邂邃還邅邆邇邈邉邊邋邌邍邎邏邐邑邒邓邔邕邖邗邘邙邚邛邜邝邞邟邠邡邢那邤邥邦邧邨邩邪邫邬邭邮邯邰邱邲邳邴邵邶邷邸邹邺邻邼邽邾邿郀郁郂郃郄郅郆郇郈郉郊郋郌郍郎郏郐郑郒郓郔郕郖郗郘郙郚郛郜郝郞郟郠郡郢郣郤郥郦郧部郩郪郫郬郭郮郯郰郱郲郳郴郵郶郷郸郹郺郻郼都郾郿醀醁醂醃醄醅醆醇醈醉醊醋醌醍醎醏醐醑醒醓醔醕醖醗醘醙醚醛醜醝醞醟醠醡醢醣醤醥醦醧醨醩醪醫醬醭醮醯醰醱醲醳醴醵醶醷醸醹醺醻醼醽醾醿釀釁釂釃釄釅釆采釈釉释釋里重野量釐金釒釓釔釕釖釗釘釙釚釛釜針釞釟釠釡釢釣釤釥釦釧釨釩釪釫釬釭釮釯釰釱釲釳釴釵釶釷釸釹釺釻釼釽釾釿銀銁銂銃銄銅銆銇銈銉銊銋銌銍銎銏銐銑銒銓銔銕銖銗銘銙銚銛銜銝銞銟銠銡銢銣銤銥銦銧銨銩銪銫銬銭銮銯銰銱銲銳銴銵銶銷銸銹銺銻銼銽銾銿鋀鋁鋂鋃鋄鋅鋆鋇鋈鋉鋊鋋鋌鋍鋎鋏鋐鋑鋒鋓鋔鋕鋖鋗鋘鋙鋚鋛鋜鋝鋞鋟鋠鋡鋢鋣鋤鋥鋦鋧鋨鋩鋪鋫鋬鋭鋮鋯鋰鋱鋲鋳鋴鋵鋶鋷鋸鋹鋺鋻鋼鋽鋾鋿鎀鎁鎂鎃鎄鎅鎆鎇鎈鎉鎊鎋鎌鎍鎎鎏鎐鎑鎒鎓鎔鎕鎖鎗鎘鎙鎚鎛鎜鎝鎞鎟鎠鎡鎢鎣鎤鎥鎦鎧鎨鎩鎪鎫鎬鎭鎮鎯鎰鎱鎲鎳鎴鎵鎶鎷鎸鎹鎺鎻鎼鎽鎾鎿鏀鏁鏂鏃鏄鏅鏆鏇鏈鏉鏊鏋鏌鏍鏎鏏鏐鏑鏒鏓鏔鏕鏖鏗鏘鏙鏚鏛鏜鏝鏞鏟鏠鏡鏢鏣鏤鏥鏦鏧鏨鏩鏪鏫鏬鏭鏮鏯鏰鏱鏲鏳鏴鏵鏶鏷鏸鏹鏺鏻鏼鏽鏾鏿钀钁钂钃钄钅钆钇针钉钊钋钌钍钎钏钐钑钒钓钔钕钖钗钘钙钚钛钜钝钞钟钠钡钢钣钤钥钦钧钨钩钪钫钬钭钮钯钰钱钲钳钴钵钶钷钸钹钺钻钼钽钾钿铀铁铂铃铄铅铆铇铈铉铊铋铌铍铎铏铐铑铒铓铔铕铖铗铘铙铚铛铜铝铞铟铠铡铢铣铤铥铦铧铨铩铪铫铬铭铮铯铰铱铲铳铴铵银铷铸铹铺铻铼铽链铿門閁閂閃閄閅閆閇閈閉閊開閌閍閎閏閐閑閒間閔閕閖閗閘閙閚閛閜閝閞閟閠閡関閣閤閥閦閧閨閩閪閫閬閭閮閯閰閱閲閳閴閵閶閷閸閹閺閻閼閽閾閿闀闁闂闃闄闅闆闇闈闉闊闋闌闍闎闏闐闑闒闓闔闕闖闗闘闙闚闛關闝闞闟闠闡闢闣闤闥闦闧门闩闪闫闬闭问闯闰闱闲闳间闵闶闷闸闹闺闻闼闽闾闿隀隁隂隃隄隅隆隇隈隉隊隋隌隍階随隐隑隒隓隔隕隖隗隘隙隚際障隝隞隟隠隡隢隣隤隥隦隧隨隩險隫隬隭隮隯隰隱隲隳隴隵隶隷隸隹隺隻隼隽难隿雀雁雂雃雄雅集雇雈雉雊雋雌雍雎雏雐雑雒雓雔雕雖雗雘雙雚雛雜雝雞雟雠雡離難雤雥雦雧雨雩雪雫雬雭雮雯雰雱雲雳雴雵零雷雸雹雺電雼雽雾雿鞀鞁鞂鞃鞄鞅鞆鞇鞈鞉鞊鞋鞌鞍鞎鞏鞐鞑鞒鞓鞔鞕鞖鞗鞘鞙鞚鞛鞜鞝鞞鞟鞠鞡鞢鞣鞤鞥鞦鞧鞨鞩鞪鞫鞬鞭鞮鞯鞰鞱鞲鞳鞴鞵鞶鞷鞸鞹鞺鞻鞼鞽鞾鞿韀韁韂韃韄韅韆韇韈韉韊韋韌韍韎韏韐韑韒韓韔韕韖韗韘韙韚韛韜韝韞韟韠韡韢韣韤韥韦韧韨韩韪韫韬韭韮韯韰韱韲音韴韵韶韷韸韹韺韻韼韽韾響颀颁颂颃预颅领颇颈颉颊颋颌颍颎颏颐频颒颓颔颕颖颗题颙颚颛颜额颞颟颠颡颢颣颤颥颦颧風颩颪颫颬颭颮颯颰颱颲颳颴颵颶颷颸颹颺颻颼颽颾颿飀飁飂飃飄飅飆飇飈飉飊飋飌飍风飏飐飑飒飓飔飕飖飗飘飙飚飛飜飝飞食飠飡飢飣飤飥飦飧飨飩飪飫飬飭飮飯飰飱飲飳飴飵飶飷飸飹飺飻飼飽飾飿馀馁馂馃馄馅馆馇馈馉馊馋馌馍馎馏馐馑馒馓馔馕首馗馘香馚馛馜馝馞馟馠馡馢馣馤馥馦馧馨馩馪馫馬馭馮馯馰馱馲馳馴馵馶馷馸馹馺馻馼馽馾馿駀駁駂駃駄駅駆駇駈駉駊駋駌駍駎駏駐駑駒駓駔駕駖駗駘駙駚駛駜駝駞駟駠駡駢駣駤駥駦駧駨駩駪駫駬駭駮駯駰駱駲駳駴駵駶駷駸駹駺駻駼駽駾駿骀骁骂骃骄骅骆骇骈骉骊骋验骍骎骏骐骑骒骓骔骕骖骗骘骙骚骛骜骝骞骟骠骡骢骣骤骥骦骧骨骩骪骫骬骭骮骯骰骱骲骳骴骵骶骷骸骹骺骻骼骽骾骿髀髁髂髃髄髅髆髇髈髉髊髋髌髍髎髏髐髑髒髓體髕髖髗高髙髚髛髜髝髞髟髠髡髢髣髤髥髦髧髨髩髪髫髬髭髮髯髰髱髲髳髴髵髶髷髸髹髺髻髼髽髾髿鮀鮁鮂鮃鮄鮅鮆鮇鮈鮉鮊鮋鮌鮍鮎鮏鮐鮑鮒鮓鮔鮕鮖鮗鮘鮙鮚鮛鮜鮝鮞鮟鮠鮡鮢鮣鮤鮥鮦鮧鮨鮩鮪鮫鮬鮭鮮鮯鮰鮱鮲鮳鮴鮵鮶鮷鮸鮹鮺鮻鮼鮽鮾鮿鯀鯁鯂鯃鯄鯅鯆鯇鯈鯉鯊鯋鯌鯍鯎鯏鯐鯑鯒鯓鯔鯕鯖鯗鯘鯙鯚鯛鯜鯝鯞鯟鯠鯡鯢鯣鯤鯥鯦鯧鯨鯩鯪鯫鯬鯭鯮鯯鯰鯱鯲鯳鯴鯵鯶鯷鯸鯹鯺鯻鯼鯽鯾鯿鲀鲁鲂鲃鲄鲅鲆鲇鲈鲉鲊鲋鲌鲍鲎鲏鲐鲑鲒鲓鲔鲕鲖鲗鲘鲙鲚鲛鲜鲝鲞鲟鲠鲡鲢鲣鲤鲥鲦鲧鲨鲩鲪鲫鲬鲭鲮鲯鲰鲱鲲鲳鲴鲵鲶鲷鲸鲹鲺鲻鲼鲽鲾鲿鳀鳁鳂鳃鳄鳅鳆鳇鳈鳉鳊鳋鳌鳍鳎鳏鳐鳑鳒鳓鳔鳕鳖鳗鳘鳙鳚鳛鳜鳝鳞鳟鳠鳡鳢鳣鳤鳥鳦鳧鳨鳩鳪鳫鳬鳭鳮鳯鳰鳱鳲鳳鳴鳵鳶鳷鳸鳹鳺鳻鳼鳽鳾鳿鶀鶁鶂鶃鶄鶅鶆鶇鶈鶉鶊鶋鶌鶍鶎鶏鶐鶑鶒鶓鶔鶕鶖鶗鶘鶙鶚鶛鶜鶝鶞鶟鶠鶡鶢鶣鶤鶥鶦鶧鶨鶩鶪鶫鶬鶭鶮鶯鶰鶱鶲鶳鶴鶵鶶鶷鶸鶹鶺鶻鶼鶽鶾鶿鷀鷁鷂鷃鷄鷅鷆鷇鷈鷉鷊鷋鷌鷍鷎鷏鷐鷑鷒鷓鷔鷕鷖鷗鷘鷙鷚鷛鷜鷝鷞鷟鷠鷡鷢鷣鷤鷥鷦鷧鷨鷩鷪鷫鷬鷭鷮鷯鷰鷱鷲鷳鷴鷵鷶鷷鷸鷹鷺鷻鷼鷽鷾鷿麀麁麂麃麄麅麆麇麈麉麊麋麌麍麎麏麐麑麒麓麔麕麖麗麘麙麚麛麜麝麞麟麠麡麢麣麤麥麦麧麨麩麪麫麬麭麮麯麰麱麲麳麴麵麶麷麸麹麺麻麼麽麾麿黀黁黂黃黄黅黆黇黈黉黊黋黌黍黎黏黐黑黒黓黔黕黖黗默黙黚黛黜黝點黟黠黡黢黣黤黥黦黧黨黩黪黫黬黭黮黯黰黱黲黳黴黵黶黷黸黹黺黻黼黽黾黿龀龁龂龃龄龅龆龇龈龉龊龋龌龍龎龏龐龑龒龓龔龕龖龗龘龙龚龛龜龝龞龟龠龡龢龣龤龥龦龧龨龩龪龫龬龭龮龯龰龱龲龳龴龵龶龷龸龹龺龻龼龽龾龿鿀鿁鿂鿃鿄鿅鿆鿇鿈鿉鿊鿋鿌鿍鿎鿏鿐鿑鿒鿓鿔鿕鿖鿗鿘鿙鿚鿛鿜鿝鿞鿟鿠鿡鿢鿣鿤鿥鿦鿧鿨鿩鿪鿫鿬鿭鿮鿯鿰鿱鿲鿳鿴鿵鿶鿷鿸鿹鿺鿻鿼鿽鿾鿿ꂀꂁꂂꂃꂄꂅꂆꂇꂈꂉꂊꂋꂌꂍꂎꂏꂐꂑꂒꂓꂔꂕꂖꂗꂘꂙꂚꂛꂜꂝꂞꂟꂠꂡꂢꂣꂤꂥꂦꂧꂨꂩꂪꂫꂬꂭꂮꂯꂰꂱꂲꂳꂴꂵꂶꂷꂸꂹꂺꂻꂼꂽꂾꂿꃀꃁꃂꃃꃄꃅꃆꃇꃈꃉꃊꃋꃌꃍꃎꃏꃐꃑꃒꃓꃔꃕꃖꃗꃘꃙꃚꃛꃜꃝꃞꃟꃠꃡꃢꃣꃤꃥꃦꃧꃨꃩꃪꃫꃬꃭꃮꃯꃰꃱꃲꃳꃴꃵꃶꃷꃸꃹꃺꃻꃼꃽꃾꃿꆀꆁꆂꆃꆄꆅꆆꆇꆈꆉꆊꆋꆌꆍꆎꆏꆐꆑꆒꆓꆔꆕꆖꆗꆘꆙꆚꆛꆜꆝꆞꆟꆠꆡꆢꆣꆤꆥꆦꆧꆨꆩꆪꆫꆬꆭꆮꆯꆰꆱꆲꆳꆴꆵꆶꆷꆸꆹꆺꆻꆼꆽꆾꆿꇀꇁꇂꇃꇄꇅꇆꇇꇈꇉꇊꇋꇌꇍꇎꇏꇐꇑꇒꇓꇔꇕꇖꇗꇘꇙꇚꇛꇜꇝꇞꇟꇠꇡꇢꇣꇤꇥꇦꇧꇨꇩꇪꇫꇬꇭꇮꇯꇰꇱꇲꇳꇴꇵꇶꇷꇸꇹꇺꇻꇼꇽꇾꇿꊀꊁꊂꊃꊄꊅꊆꊇꊈꊉꊊꊋꊌꊍꊎꊏꊐꊑꊒꊓꊔꊕꊖꊗꊘꊙꊚꊛꊜꊝꊞꊟꊠꊡꊢꊣꊤꊥꊦꊧꊨꊩꊪꊫꊬꊭꊮꊯꊰꊱꊲꊳꊴꊵꊶꊷꊸꊹꊺꊻꊼꊽꊾꊿꋀꋁꋂꋃꋄꋅꋆꋇꋈꋉꋊꋋꋌꋍꋎꋏꋐꋑꋒꋓꋔꋕꋖꋗꋘꋙꋚꋛꋜꋝꋞꋟꋠꋡꋢꋣꋤꋥꋦꋧꋨꋩꋪꋫꋬꋭꋮꋯꋰꋱꋲꋳꋴꋵꋶꋷꋸꋹꋺꋻꋼꋽꋾꋿꎀꎁꎂꎃꎄꎅꎆꎇꎈꎉꎊꎋꎌꎍꎎꎏꎐꎑꎒꎓꎔꎕꎖꎗꎘꎙꎚꎛꎜꎝꎞꎟꎠꎡꎢꎣꎤꎥꎦꎧꎨꎩꎪꎫꎬꎭꎮꎯꎰꎱꎲꎳꎴꎵꎶꎷꎸꎹꎺꎻꎼꎽꎾꎿꏀꏁꏂꏃꏄꏅꏆꏇꏈꏉꏊꏋꏌꏍꏎꏏꏐꏑꏒꏓꏔꏕꏖꏗꏘꏙꏚꏛꏜꏝꏞꏟꏠꏡꏢꏣꏤꏥꏦꏧꏨꏩꏪꏫꏬꏭꏮꏯꏰꏱꏲꏳꏴꏵꏶꏷꏸꏹꏺꏻꏼꏽꏾꏿꒀꒁꒂꒃꒄꒅꒆꒇꒈꒉꒊꒋꒌ꒍꒎꒏꒐꒑꒒꒓꒔꒕꒖꒗꒘꒙꒚꒛꒜꒝꒞꒟꒠꒡꒢꒣꒤꒥꒦꒧꒨꒩꒪꒫꒬꒭꒮꒯꒰꒱꒲꒳꒴꒵꒶꒷꒸꒹꒺꒻꒼꒽꒾꒿꓀꓁꓂꓃꓄꓅꓆꓇꓈꓉꓊꓋꓌꓍꓎꓏ꓐꓑꓒꓓꓔꓕꓖꓗꓘꓙꓚꓛꓜꓝꓞꓟꓠꓡꓢꓣꓤꓥꓦꓧꓨꓩꓪꓫꓬꓭꓮꓯꓰꓱꓲꓳꓴꓵꓶꓷꓸꓹꓺꓻꓼꓽ꓾꓿ꖀꖁꖂꖃꖄꖅꖆꖇꖈꖉꖊꖋꖌꖍꖎꖏꖐꖑꖒꖓꖔꖕꖖꖗꖘꖙꖚꖛꖜꖝꖞꖟꖠꖡꖢꖣꖤꖥꖦꖧꖨꖩꖪꖫꖬꖭꖮꖯꖰꖱꖲꖳꖴꖵꖶꖷꖸꖹꖺꖻꖼꖽꖾꖿꗀꗁꗂꗃꗄꗅꗆꗇꗈꗉꗊꗋꗌꗍꗎꗏꗐꗑꗒꗓꗔꗕꗖꗗꗘꗙꗚꗛꗜꗝꗞꗟꗠꗡꗢꗣꗤꗥꗦꗧꗨꗩꗪꗫꗬꗭꗮꗯꗰꗱꗲꗳꗴꗵꗶꗷꗸꗹꗺꗻꗼꗽꗾꗿꚀꚁꚂꚃꚄꚅꚆꚇꚈꚉꚊꚋꚌꚍꚎꚏꚐꚑꚒꚓꚔꚕꚖꚗꚘꚙꚚꚛꚜꚝꚞꚟꚠꚡꚢꚣꚤꚥꚦꚧꚨꚩꚪꚫꚬꚭꚮꚯꚰꚱꚲꚳꚴꚵꚶꚷꚸꚹꚺꚻꚼꚽꚾꚿꛀꛁꛂꛃꛄꛅꛆꛇꛈꛉꛊꛋꛌꛍꛎꛏꛐꛑꛒꛓꛔꛕꛖꛗꛘꛙꛚꛛꛜꛝꛞꛟꛠꛡꛢꛣꛤꛥꛦꛧꛨꛩꛪꛫꛬꛭꛮꛯ꛰꛱꛲꛳꛴꛵꛶꛷꛸꛹꛺꛻꛼꛽꛾꛿ꞀꞁꞂꞃꞄꞅꞆꞇꞈ꞉꞊ꞋꞌꞍꞎꞏꞐꞑꞒꞓꞔꞕꞖꞗꞘꞙꞚꞛꞜꞝꞞꞟꞠꞡꞢꞣꞤꞥꞦꞧꞨꞩꞪꞫꞬꞭꞮꞯꞰꞱꞲꞳꞴꞵꞶꞷꞸꞹꞺꞻꞼꞽꞾꞿꟀꟁꟂꟃꟄꟅꟆꟇꟈꟉꟊꟋꟌꟍ꟎꟏Ꟑꟑ꟒ꟓ꟔ꟕꟖꟗꟘꟙꟚꟛꟜ꟝꟞꟟꟠꟡꟢꟣꟤꟥꟦꟧꟨꟩꟪꟫꟬꟭꟮꟯꟰꟱ꟲꟳꟴꟵꟶꟷꟸꟹꟺꟻꟼꟽꟾꟿꢀꢁꢂꢃꢄꢅꢆꢇꢈꢉꢊꢋꢌꢍꢎꢏꢐꢑꢒꢓꢔꢕꢖꢗꢘꢙꢚꢛꢜꢝꢞꢟꢠꢡꢢꢣꢤꢥꢦꢧꢨꢩꢪꢫꢬꢭꢮꢯꢰꢱꢲꢳꢴꢵꢶꢷꢸꢹꢺꢻꢼꢽꢾꢿꣀꣁꣂꣃ꣄ꣅ꣆꣇꣈꣉꣊꣋꣌꣍꣎꣏꣐꣑꣒꣓꣔꣕꣖꣗꣘꣙꣚꣛꣜꣝꣞꣟꣠꣡꣢꣣꣤꣥꣦꣧꣨꣩꣪꣫꣬꣭꣮꣯꣰꣱ꣲꣳꣴꣵꣶꣷ꣸꣹꣺ꣻ꣼ꣽꣾꣿꦀꦁꦂꦃꦄꦅꦆꦇꦈꦉꦊꦋꦌꦍꦎꦏꦐꦑꦒꦓꦔꦕꦖꦗꦘꦙꦚꦛꦜꦝꦞꦟꦠꦡꦢꦣꦤꦥꦦꦧꦨꦩꦪꦫꦬꦭꦮꦯꦰꦱꦲ꦳ꦴꦵꦶꦷꦸꦹꦺꦻꦼꦽꦾꦿ꧀꧁꧂꧃꧄꧅꧆꧇꧈꧉꧊꧋꧌꧍꧎ꧏ꧐꧑꧒꧓꧔꧕꧖꧗꧘꧙꧚꧛꧜꧝꧞꧟ꧠꧡꧢꧣꧤꧥꧦꧧꧨꧩꧪꧫꧬꧭꧮꧯ꧰꧱꧲꧳꧴꧵꧶꧷꧸꧹ꧺꧻꧼꧽꧾ꧿ꪀꪁꪂꪃꪄꪅꪆꪇꪈꪉꪊꪋꪌꪍꪎꪏꪐꪑꪒꪓꪔꪕꪖꪗꪘꪙꪚꪛꪜꪝꪞꪟꪠꪡꪢꪣꪤꪥꪦꪧꪨꪩꪪꪫꪬꪭꪮꪯꪰꪱꪴꪲꪳꪵꪶꪷꪸꪹꪺꪻꪼꪽꪾ꪿ꫀ꫁ꫂ꫃꫄꫅꫆꫇꫈꫉꫊꫋꫌꫍꫎꫏꫐꫑꫒꫓꫔꫕꫖꫗꫘꫙꫚ꫛꫜꫝ꫞꫟ꫠꫡꫢꫣꫤꫥꫦꫧꫨꫩꫪꫫꫬꫭꫮꫯ꫰꫱ꫲꫳꫴꫵ꫶꫷꫸꫹꫺꫻꫼꫽꫾꫿ꮀꮁꮂꮃꮄꮅꮆꮇꮈꮉꮊꮋꮌꮍꮎꮏꮐꮑꮒꮓꮔꮕꮖꮗꮘꮙꮚꮛꮜꮝꮞꮟꮠꮡꮢꮣꮤꮥꮦꮧꮨꮩꮪꮫꮬꮭꮮꮯꮰꮱꮲꮳꮴꮵꮶꮷꮸꮹꮺꮻꮼꮽꮾꮿꯀꯁꯂꯃꯄꯅꯆꯇꯈꯉꯊꯋꯌꯍꯎꯏꯐꯑꯒꯓꯔꯕꯖꯗꯘꯙꯚꯛꯜꯝꯞꯟꯠꯡꯢꯣꯤꯥꯦꯧꯨꯩꯪ꯫꯬꯭꯮꯯꯰꯱꯲꯳꯴꯵꯶꯷꯸꯹꯺꯻꯼꯽꯾꯿검겁겂것겄겅겆겇겈겉겊겋게겍겎겏겐겑겒겓겔겕겖겗겘겙겚겛겜겝겞겟겠겡겢겣겤겥겦겧겨격겪겫견겭겮겯결겱겲겳겴겵겶겷겸겹겺겻겼경겾겿곀곁곂곃계곅곆곇곈곉곊곋곌곍곎곏곐곑곒곓곔곕곖곗곘곙곚곛곜곝곞곟고곡곢곣곤곥곦곧골곩곪곫곬곭곮곯곰곱곲곳곴공곶곷곸곹곺곻과곽곾곿궀궁궂궃궄궅궆궇궈궉궊궋권궍궎궏궐궑궒궓궔궕궖궗궘궙궚궛궜궝궞궟궠궡궢궣궤궥궦궧궨궩궪궫궬궭궮궯궰궱궲궳궴궵궶궷궸궹궺궻궼궽궾궿귀귁귂귃귄귅귆귇귈귉귊귋귌귍귎귏귐귑귒귓귔귕귖귗귘귙귚귛규귝귞귟균귡귢귣귤귥귦귧귨귩귪귫귬귭귮귯귰귱귲귳귴귵귶귷그극귺귻근귽귾귿꺀꺁꺂꺃꺄꺅꺆꺇꺈꺉꺊꺋꺌꺍꺎꺏꺐꺑꺒꺓꺔꺕꺖꺗꺘꺙꺚꺛꺜꺝꺞꺟꺠꺡꺢꺣꺤꺥꺦꺧꺨꺩꺪꺫꺬꺭꺮꺯꺰꺱꺲꺳꺴꺵꺶꺷꺸꺹꺺꺻꺼꺽꺾꺿껀껁껂껃껄껅껆껇껈껉껊껋껌껍껎껏껐껑껒껓껔껕껖껗께껙껚껛껜껝껞껟껠껡껢껣껤껥껦껧껨껩껪껫껬껭껮껯껰껱껲껳껴껵껶껷껸껹껺껻껼껽껾껿꾀꾁꾂꾃꾄꾅꾆꾇꾈꾉꾊꾋꾌꾍꾎꾏꾐꾑꾒꾓꾔꾕꾖꾗꾘꾙꾚꾛꾜꾝꾞꾟꾠꾡꾢꾣꾤꾥꾦꾧꾨꾩꾪꾫꾬꾭꾮꾯꾰꾱꾲꾳꾴꾵꾶꾷꾸꾹꾺꾻꾼꾽꾾꾿꿀꿁꿂꿃꿄꿅꿆꿇꿈꿉꿊꿋꿌꿍꿎꿏꿐꿑꿒꿓꿔꿕꿖꿗꿘꿙꿚꿛꿜꿝꿞꿟꿠꿡꿢꿣꿤꿥꿦꿧꿨꿩꿪꿫꿬꿭꿮꿯꿰꿱꿲꿳꿴꿵꿶꿷꿸꿹꿺꿻꿼꿽꿾꿿낀낁낂낃낄낅낆낇낈낉낊낋낌낍낎낏낐낑낒낓낔낕낖낗나낙낚낛난낝낞낟날낡낢낣낤낥낦낧남납낪낫났낭낮낯낰낱낲낳내낵낶낷낸낹낺낻낼낽낾낿냀냁냂냃냄냅냆냇냈냉냊냋냌냍냎냏냐냑냒냓냔냕냖냗냘냙냚냛냜냝냞냟냠냡냢냣냤냥냦냧냨냩냪냫냬냭냮냯냰냱냲냳냴냵냶냷냸냹냺냻냼냽냾냿놀놁놂놃놄놅놆놇놈놉놊놋놌농놎놏놐놑높놓놔놕놖놗놘놙놚놛놜놝놞놟놠놡놢놣놤놥놦놧놨놩놪놫놬놭놮놯놰놱놲놳놴놵놶놷놸놹놺놻놼놽놾놿뇀뇁뇂뇃뇄뇅뇆뇇뇈뇉뇊뇋뇌뇍뇎뇏뇐뇑뇒뇓뇔뇕뇖뇗뇘뇙뇚뇛뇜뇝뇞뇟뇠뇡뇢뇣뇤뇥뇦뇧뇨뇩뇪뇫뇬뇭뇮뇯뇰뇱뇲뇳뇴뇵뇶뇷뇸뇹뇺뇻뇼뇽뇾뇿늀늁늂늃늄늅늆늇늈늉늊늋늌늍늎늏느늑늒늓는늕늖늗늘늙늚늛늜늝늞늟늠늡늢늣늤능늦늧늨늩늪늫늬늭늮늯늰늱늲늳늴늵늶늷늸늹늺늻늼늽늾늿닀닁닂닃닄닅닆닇니닉닊닋닌닍닎닏닐닑닒닓닔닕닖닗님닙닚닛닜닝닞닟닠닡닢닣다닥닦닧단닩닪닫달닭닮닯닰닱닲닳담답닶닷닸당닺닻닼닽닾닿뎀뎁뎂뎃뎄뎅뎆뎇뎈뎉뎊뎋뎌뎍뎎뎏뎐뎑뎒뎓뎔뎕뎖뎗뎘뎙뎚뎛뎜뎝뎞뎟뎠뎡뎢뎣뎤뎥뎦뎧뎨뎩뎪뎫뎬뎭뎮뎯뎰뎱뎲뎳뎴뎵뎶뎷뎸뎹뎺뎻뎼뎽뎾뎿돀돁돂돃도독돆돇돈돉돊돋돌돍돎돏돐돑돒돓돔돕돖돗돘동돚돛돜돝돞돟돠돡돢돣돤돥돦돧돨돩돪돫돬돭돮돯돰돱돲돳돴돵돶돷돸돹돺돻돼돽돾돿뒀뒁뒂뒃뒄뒅뒆뒇뒈뒉뒊뒋뒌뒍뒎뒏뒐뒑뒒뒓뒔뒕뒖뒗뒘뒙뒚뒛뒜뒝뒞뒟뒠뒡뒢뒣뒤뒥뒦뒧뒨뒩뒪뒫뒬뒭뒮뒯뒰뒱뒲뒳뒴뒵뒶뒷뒸뒹뒺뒻뒼뒽뒾뒿듀듁듂듃듄듅듆듇듈듉듊듋듌듍듎듏듐듑듒듓듔듕듖듗듘듙듚듛드득듞듟든듡듢듣들듥듦듧듨듩듪듫듬듭듮듯듰등듲듳듴듵듶듷듸듹듺듻듼듽듾듿떀떁떂떃떄떅떆떇떈떉떊떋떌떍떎떏떐떑떒떓떔떕떖떗떘떙떚떛떜떝떞떟떠떡떢떣떤떥떦떧떨떩떪떫떬떭떮떯떰떱떲떳떴떵떶떷떸떹떺떻떼떽떾떿뗀뗁뗂뗃뗄뗅뗆뗇뗈뗉뗊뗋뗌뗍뗎뗏뗐뗑뗒뗓뗔뗕뗖뗗뗘뗙뗚뗛뗜뗝뗞뗟뗠뗡뗢뗣뗤뗥뗦뗧뗨뗩뗪뗫뗬뗭뗮뗯뗰뗱뗲뗳뗴뗵뗶뗷뗸뗹뗺뗻뗼뗽뗾뗿뚀뚁뚂뚃뚄뚅뚆뚇뚈뚉뚊뚋뚌뚍뚎뚏뚐뚑뚒뚓뚔뚕뚖뚗뚘뚙뚚뚛뚜뚝뚞뚟뚠뚡뚢뚣뚤뚥뚦뚧뚨뚩뚪뚫뚬뚭뚮뚯뚰뚱뚲뚳뚴뚵뚶뚷뚸뚹뚺뚻뚼뚽뚾뚿뛀뛁뛂뛃뛄뛅뛆뛇뛈뛉뛊뛋뛌뛍뛎뛏뛐뛑뛒뛓뛔뛕뛖뛗뛘뛙뛚뛛뛜뛝뛞뛟뛠뛡뛢뛣뛤뛥뛦뛧뛨뛩뛪뛫뛬뛭뛮뛯뛰뛱뛲뛳뛴뛵뛶뛷뛸뛹뛺뛻뛼뛽뛾뛿란랁랂랃랄랅랆랇랈랉랊랋람랍랎랏랐랑랒랓랔랕랖랗래랙랚랛랜랝랞랟랠랡랢랣랤랥랦랧램랩랪랫랬랭랮랯랰랱랲랳랴략랶랷랸랹랺랻랼랽랾랿럀럁럂럃럄럅럆럇럈량럊럋럌럍럎럏럐럑럒럓럔럕럖럗럘럙럚럛럜럝럞럟럠럡럢럣럤럥럦럧럨럩럪럫러럭럮럯런럱럲럳럴럵럶럷럸럹럺럻럼럽럾럿뢀뢁뢂뢃뢄뢅뢆뢇뢈뢉뢊뢋뢌뢍뢎뢏뢐뢑뢒뢓뢔뢕뢖뢗뢘뢙뢚뢛뢜뢝뢞뢟뢠뢡뢢뢣뢤뢥뢦뢧뢨뢩뢪뢫뢬뢭뢮뢯뢰뢱뢲뢳뢴뢵뢶뢷뢸뢹뢺뢻뢼뢽뢾뢿룀룁룂룃룄룅룆룇룈룉룊룋료룍룎룏룐룑룒룓룔룕룖룗룘룙룚룛룜룝룞룟룠룡룢룣룤룥룦룧루룩룪룫룬룭룮룯룰룱룲룳룴룵룶룷룸룹룺룻룼룽룾룿릀릁릂릃름릅릆릇릈릉릊릋릌릍릎릏릐릑릒릓릔릕릖릗릘릙릚릛릜릝릞릟릠릡릢릣릤릥릦릧릨릩릪릫리릭릮릯린릱릲릳릴릵릶릷릸릹릺릻림립릾릿맀링맂맃맄맅맆맇마막맊맋만맍많맏말맑맒맓맔맕맖맗맘맙맚맛맜망맞맟맠맡맢맣매맥맦맧맨맩맪맫맬맭맮맯맰맱맲맳맴맵맶맷맸맹맺맻맼맽맾맿몀몁몂몃몄명몆몇몈몉몊몋몌몍몎몏몐몑몒몓몔몕몖몗몘몙몚몛몜몝몞몟몠몡몢몣몤몥몦몧모목몪몫몬몭몮몯몰몱몲몳몴몵몶몷몸몹몺못몼몽몾몿뫀뫁뫂뫃뫄뫅뫆뫇뫈뫉뫊뫋뫌뫍뫎뫏뫐뫑뫒뫓뫔뫕뫖뫗뫘뫙뫚뫛뫜뫝뫞뫟뫠뫡뫢뫣뫤뫥뫦뫧뫨뫩뫪뫫뫬뫭뫮뫯뫰뫱뫲뫳뫴뫵뫶뫷뫸뫹뫺뫻뫼뫽뫾뫿뮀뮁뮂뮃뮄뮅뮆뮇뮈뮉뮊뮋뮌뮍뮎뮏뮐뮑뮒뮓뮔뮕뮖뮗뮘뮙뮚뮛뮜뮝뮞뮟뮠뮡뮢뮣뮤뮥뮦뮧뮨뮩뮪뮫뮬뮭뮮뮯뮰뮱뮲뮳뮴뮵뮶뮷뮸뮹뮺뮻뮼뮽뮾뮿므믁믂믃믄믅믆믇믈믉믊믋믌믍믎믏믐믑믒믓믔믕믖믗믘믙믚믛믜믝믞믟믠믡믢믣믤믥믦믧믨믩믪믫믬믭믮믯믰믱믲믳믴믵믶믷미믹믺믻민믽믾믿벀벁벂벃버벅벆벇번벉벊벋벌벍벎벏벐벑벒벓범법벖벗벘벙벚벛벜벝벞벟베벡벢벣벤벥벦벧벨벩벪벫벬벭벮벯벰벱벲벳벴벵벶벷벸벹벺벻벼벽벾벿변볁볂볃별볅볆볇볈볉볊볋볌볍볎볏볐병볒볓볔볕볖볗볘볙볚볛볜볝볞볟볠볡볢볣볤볥볦볧볨볩볪볫볬볭볮볯볰볱볲볳보복볶볷본볹볺볻볼볽볾볿부북붂붃분붅붆붇불붉붊붋붌붍붎붏붐붑붒붓붔붕붖붗붘붙붚붛붜붝붞붟붠붡붢붣붤붥붦붧붨붩붪붫붬붭붮붯붰붱붲붳붴붵붶붷붸붹붺붻붼붽붾붿뷀뷁뷂뷃뷄뷅뷆뷇뷈뷉뷊뷋뷌뷍뷎뷏뷐뷑뷒뷓뷔뷕뷖뷗뷘뷙뷚뷛뷜뷝뷞뷟뷠뷡뷢뷣뷤뷥뷦뷧뷨뷩뷪뷫뷬뷭뷮뷯뷰뷱뷲뷳뷴뷵뷶뷷뷸뷹뷺뷻뷼뷽뷾뷿뺀뺁뺂뺃뺄뺅뺆뺇뺈뺉뺊뺋뺌뺍뺎뺏뺐뺑뺒뺓뺔뺕뺖뺗뺘뺙뺚뺛뺜뺝뺞뺟뺠뺡뺢뺣뺤뺥뺦뺧뺨뺩뺪뺫뺬뺭뺮뺯뺰뺱뺲뺳뺴뺵뺶뺷뺸뺹뺺뺻뺼뺽뺾뺿뻀뻁뻂뻃뻄뻅뻆뻇뻈뻉뻊뻋뻌뻍뻎뻏뻐뻑뻒뻓뻔뻕뻖뻗뻘뻙뻚뻛뻜뻝뻞뻟뻠뻡뻢뻣뻤뻥뻦뻧뻨뻩뻪뻫뻬뻭뻮뻯뻰뻱뻲뻳뻴뻵뻶뻷뻸뻹뻺뻻뻼뻽뻾뻿뾀뾁뾂뾃뾄뾅뾆뾇뾈뾉뾊뾋뾌뾍뾎뾏뾐뾑뾒뾓뾔뾕뾖뾗뾘뾙뾚뾛뾜뾝뾞뾟뾠뾡뾢뾣뾤뾥뾦뾧뾨뾩뾪뾫뾬뾭뾮뾯뾰뾱뾲뾳뾴뾵뾶뾷뾸뾹뾺뾻뾼뾽뾾뾿뿀뿁뿂뿃뿄뿅뿆뿇뿈뿉뿊뿋뿌뿍뿎뿏뿐뿑뿒뿓뿔뿕뿖뿗뿘뿙뿚뿛뿜뿝뿞뿟뿠뿡뿢뿣뿤뿥뿦뿧뿨뿩뿪뿫뿬뿭뿮뿯뿰뿱뿲뿳뿴뿵뿶뿷뿸뿹뿺뿻뿼뿽뿾뿿삀삁삂삃삄삅삆삇삈삉삊삋삌삍삎삏삐삑삒삓삔삕삖삗삘삙삚삛삜삝삞삟삠삡삢삣삤삥삦삧삨삩삪삫사삭삮삯산삱삲삳살삵삶삷삸삹삺삻삼삽삾삿샀상샂샃샄샅샆샇새색샊샋샌샍샎샏샐샑샒샓샔샕샖샗샘샙샚샛샜생샞샟샠샡샢샣샤샥샦샧샨샩샪샫샬샭샮샯샰샱샲샳샴샵샶샷샸샹샺샻샼샽샾샿솀솁솂솃솄솅솆솇솈솉솊솋소속솎솏손솑솒솓솔솕솖솗솘솙솚솛솜솝솞솟솠송솢솣솤솥솦솧솨솩솪솫솬솭솮솯솰솱솲솳솴솵솶솷솸솹솺솻솼솽솾솿쇀쇁쇂쇃쇄쇅쇆쇇쇈쇉쇊쇋쇌쇍쇎쇏쇐쇑쇒쇓쇔쇕쇖쇗쇘쇙쇚쇛쇜쇝쇞쇟쇠쇡쇢쇣쇤쇥쇦쇧쇨쇩쇪쇫쇬쇭쇮쇯쇰쇱쇲쇳쇴쇵쇶쇷쇸쇹쇺쇻쇼쇽쇾쇿슀슁슂슃슄슅슆슇슈슉슊슋슌슍슎슏슐슑슒슓슔슕슖슗슘슙슚슛슜슝슞슟슠슡슢슣스슥슦슧슨슩슪슫슬슭슮슯슰슱슲슳슴습슶슷슸승슺슻슼슽슾슿싀싁싂싃싄싅싆싇싈싉싊싋싌싍싎싏싐싑싒싓싔싕싖싗싘싙싚싛시식싞싟신싡싢싣실싥싦싧싨싩싪싫심십싮싯싰싱싲싳싴싵싶싷싸싹싺싻싼싽싾싿쎀쎁쎂쎃쎄쎅쎆쎇쎈쎉쎊쎋쎌쎍쎎쎏쎐쎑쎒쎓쎔쎕쎖쎗쎘쎙쎚쎛쎜쎝쎞쎟쎠쎡쎢쎣쎤쎥쎦쎧쎨쎩쎪쎫쎬쎭쎮쎯쎰쎱쎲쎳쎴쎵쎶쎷쎸쎹쎺쎻쎼쎽쎾쎿쏀쏁쏂쏃쏄쏅쏆쏇쏈쏉쏊쏋쏌쏍쏎쏏쏐쏑쏒쏓쏔쏕쏖쏗쏘쏙쏚쏛쏜쏝쏞쏟쏠쏡쏢쏣쏤쏥쏦쏧쏨쏩쏪쏫쏬쏭쏮쏯쏰쏱쏲쏳쏴쏵쏶쏷쏸쏹쏺쏻쏼쏽쏾쏿쒀쒁쒂쒃쒄쒅쒆쒇쒈쒉쒊쒋쒌쒍쒎쒏쒐쒑쒒쒓쒔쒕쒖쒗쒘쒙쒚쒛쒜쒝쒞쒟쒠쒡쒢쒣쒤쒥쒦쒧쒨쒩쒪쒫쒬쒭쒮쒯쒰쒱쒲쒳쒴쒵쒶쒷쒸쒹쒺쒻쒼쒽쒾쒿쓀쓁쓂쓃쓄쓅쓆쓇쓈쓉쓊쓋쓌쓍쓎쓏쓐쓑쓒쓓쓔쓕쓖쓗쓘쓙쓚쓛쓜쓝쓞쓟쓠쓡쓢쓣쓤쓥쓦쓧쓨쓩쓪쓫쓬쓭쓮쓯쓰쓱쓲쓳쓴쓵쓶쓷쓸쓹쓺쓻쓼쓽쓾쓿얀얁얂얃얄얅얆얇얈얉얊얋얌얍얎얏얐양얒얓얔얕얖얗얘얙얚얛얜얝얞얟얠얡얢얣얤얥얦얧얨얩얪얫얬얭얮얯얰얱얲얳어억얶얷언얹얺얻얼얽얾얿엀엁엂엃엄업없엇었엉엊엋엌엍엎엏에엑엒엓엔엕엖엗엘엙엚엛엜엝엞엟엠엡엢엣엤엥엦엧엨엩엪엫여역엮엯연엱엲엳열엵엶엷엸엹엺엻염엽엾엿욀욁욂욃욄욅욆욇욈욉욊욋욌욍욎욏욐욑욒욓요욕욖욗욘욙욚욛욜욝욞욟욠욡욢욣욤욥욦욧욨용욪욫욬욭욮욯우욱욲욳운욵욶욷울욹욺욻욼욽욾욿움웁웂웃웄웅웆웇웈웉웊웋워웍웎웏원웑웒웓월웕웖웗웘웙웚웛웜웝웞웟웠웡웢웣웤웥웦웧웨웩웪웫웬웭웮웯웰웱웲웳웴웵웶웷웸웹웺웻웼웽웾웿잀잁잂잃임입잆잇있잉잊잋잌잍잎잏자작잒잓잔잕잖잗잘잙잚잛잜잝잞잟잠잡잢잣잤장잦잧잨잩잪잫재잭잮잯잰잱잲잳잴잵잶잷잸잹잺잻잼잽잾잿쟀쟁쟂쟃쟄쟅쟆쟇쟈쟉쟊쟋쟌쟍쟎쟏쟐쟑쟒쟓쟔쟕쟖쟗쟘쟙쟚쟛쟜쟝쟞쟟쟠쟡쟢쟣쟤쟥쟦쟧쟨쟩쟪쟫쟬쟭쟮쟯쟰쟱쟲쟳쟴쟵쟶쟷쟸쟹쟺쟻쟼쟽쟾쟿좀좁좂좃좄종좆좇좈좉좊좋좌좍좎좏좐좑좒좓좔좕좖좗좘좙좚좛좜좝좞좟좠좡좢좣좤좥좦좧좨좩좪좫좬좭좮좯좰좱좲좳좴좵좶좷좸좹좺좻좼좽좾좿죀죁죂죃죄죅죆죇죈죉죊죋죌죍죎죏죐죑죒죓죔죕죖죗죘죙죚죛죜죝죞죟죠죡죢죣죤죥죦죧죨죩죪죫죬죭죮죯죰죱죲죳죴죵죶죷죸죹죺죻주죽죾죿즀즁즂즃즄즅즆즇즈즉즊즋즌즍즎즏즐즑즒즓즔즕즖즗즘즙즚즛즜증즞즟즠즡즢즣즤즥즦즧즨즩즪즫즬즭즮즯즰즱즲즳즴즵즶즷즸즹즺즻즼즽즾즿지직짂짃진짅짆짇질짉짊짋짌짍짎짏짐집짒짓짔징짖짗짘짙짚짛짜짝짞짟짠짡짢짣짤짥짦짧짨짩짪짫짬짭짮짯짰짱짲짳짴짵짶짷째짹짺짻짼짽짾짿쪀쪁쪂쪃쪄쪅쪆쪇쪈쪉쪊쪋쪌쪍쪎쪏쪐쪑쪒쪓쪔쪕쪖쪗쪘쪙쪚쪛쪜쪝쪞쪟쪠쪡쪢쪣쪤쪥쪦쪧쪨쪩쪪쪫쪬쪭쪮쪯쪰쪱쪲쪳쪴쪵쪶쪷쪸쪹쪺쪻쪼쪽쪾쪿쫀쫁쫂쫃쫄쫅쫆쫇쫈쫉쫊쫋쫌쫍쫎쫏쫐쫑쫒쫓쫔쫕쫖쫗쫘쫙쫚쫛쫜쫝쫞쫟쫠쫡쫢쫣쫤쫥쫦쫧쫨쫩쫪쫫쫬쫭쫮쫯쫰쫱쫲쫳쫴쫵쫶쫷쫸쫹쫺쫻쫼쫽쫾쫿쮀쮁쮂쮃쮄쮅쮆쮇쮈쮉쮊쮋쮌쮍쮎쮏쮐쮑쮒쮓쮔쮕쮖쮗쮘쮙쮚쮛쮜쮝쮞쮟쮠쮡쮢쮣쮤쮥쮦쮧쮨쮩쮪쮫쮬쮭쮮쮯쮰쮱쮲쮳쮴쮵쮶쮷쮸쮹쮺쮻쮼쮽쮾쮿쯀쯁쯂쯃쯄쯅쯆쯇쯈쯉쯊쯋쯌쯍쯎쯏쯐쯑쯒쯓쯔쯕쯖쯗쯘쯙쯚쯛쯜쯝쯞쯟쯠쯡쯢쯣쯤쯥쯦쯧쯨쯩쯪쯫쯬쯭쯮쯯쯰쯱쯲쯳쯴쯵쯶쯷쯸쯹쯺쯻쯼쯽쯾쯿첀첁첂첃첄첅첆첇첈첉첊첋첌첍첎첏첐첑첒첓첔첕첖첗처척첚첛천첝첞첟철첡첢첣첤첥첦첧첨첩첪첫첬청첮첯첰첱첲첳체첵첶첷첸첹첺첻첼첽첾첿쳀쳁쳂쳃쳄쳅쳆쳇쳈쳉쳊쳋쳌쳍쳎쳏쳐쳑쳒쳓쳔쳕쳖쳗쳘쳙쳚쳛쳜쳝쳞쳟쳠쳡쳢쳣쳤쳥쳦쳧쳨쳩쳪쳫쳬쳭쳮쳯쳰쳱쳲쳳쳴쳵쳶쳷쳸쳹쳺쳻쳼쳽쳾쳿춀춁춂춃춄춅춆춇춈춉춊춋춌춍춎춏춐춑춒춓추축춖춗춘춙춚춛출춝춞춟춠춡춢춣춤춥춦춧춨충춪춫춬춭춮춯춰춱춲춳춴춵춶춷춸춹춺춻춼춽춾춿췀췁췂췃췄췅췆췇췈췉췊췋췌췍췎췏췐췑췒췓췔췕췖췗췘췙췚췛췜췝췞췟췠췡췢췣췤췥췦췧취췩췪췫췬췭췮췯췰췱췲췳췴췵췶췷췸췹췺췻췼췽췾췿캀캁캂캃캄캅캆캇캈캉캊캋캌캍캎캏캐캑캒캓캔캕캖캗캘캙캚캛캜캝캞캟캠캡캢캣캤캥캦캧캨캩캪캫캬캭캮캯캰캱캲캳캴캵캶캷캸캹캺캻캼캽캾캿컀컁컂컃컄컅컆컇컈컉컊컋컌컍컎컏컐컑컒컓컔컕컖컗컘컙컚컛컜컝컞컟컠컡컢컣커컥컦컧컨컩컪컫컬컭컮컯컰컱컲컳컴컵컶컷컸컹컺컻컼컽컾컿쾀쾁쾂쾃쾄쾅쾆쾇쾈쾉쾊쾋쾌쾍쾎쾏쾐쾑쾒쾓쾔쾕쾖쾗쾘쾙쾚쾛쾜쾝쾞쾟쾠쾡쾢쾣쾤쾥쾦쾧쾨쾩쾪쾫쾬쾭쾮쾯쾰쾱쾲쾳쾴쾵쾶쾷쾸쾹쾺쾻쾼쾽쾾쾿쿀쿁쿂쿃쿄쿅쿆쿇쿈쿉쿊쿋쿌쿍쿎쿏쿐쿑쿒쿓쿔쿕쿖쿗쿘쿙쿚쿛쿜쿝쿞쿟쿠쿡쿢쿣쿤쿥쿦쿧쿨쿩쿪쿫쿬쿭쿮쿯쿰쿱쿲쿳쿴쿵쿶쿷쿸쿹쿺쿻쿼쿽쿾쿿킀킁킂킃킄킅킆킇킈킉킊킋킌킍킎킏킐킑킒킓킔킕킖킗킘킙킚킛킜킝킞킟킠킡킢킣키킥킦킧킨킩킪킫킬킭킮킯킰킱킲킳킴킵킶킷킸킹킺킻킼킽킾킿타탁탂탃탄탅탆탇탈탉탊탋탌탍탎탏탐탑탒탓탔탕탖탗탘탙탚탛태택탞탟탠탡탢탣탤탥탦탧탨탩탪탫탬탭탮탯탰탱탲탳탴탵탶탷탸탹탺탻탼탽탾탿톀톁톂톃톄톅톆톇톈톉톊톋톌톍톎톏톐톑톒톓톔톕톖톗톘톙톚톛톜톝톞톟토톡톢톣톤톥톦톧톨톩톪톫톬톭톮톯톰톱톲톳톴통톶톷톸톹톺톻톼톽톾톿퇀퇁퇂퇃퇄퇅퇆퇇퇈퇉퇊퇋퇌퇍퇎퇏퇐퇑퇒퇓퇔퇕퇖퇗퇘퇙퇚퇛퇜퇝퇞퇟퇠퇡퇢퇣퇤퇥퇦퇧퇨퇩퇪퇫퇬퇭퇮퇯퇰퇱퇲퇳퇴퇵퇶퇷퇸퇹퇺퇻퇼퇽퇾퇿튀튁튂튃튄튅튆튇튈튉튊튋튌튍튎튏튐튑튒튓튔튕튖튗튘튙튚튛튜튝튞튟튠튡튢튣튤튥튦튧튨튩튪튫튬튭튮튯튰튱튲튳튴튵튶튷트특튺튻튼튽튾튿틀틁틂틃틄틅틆틇틈틉틊틋틌틍틎틏틐틑틒틓틔틕틖틗틘틙틚틛틜틝틞틟틠틡틢틣틤틥틦틧틨틩틪틫틬틭틮틯티틱틲틳틴틵틶틷틸틹틺틻틼틽틾틿펀펁펂펃펄펅펆펇펈펉펊펋펌펍펎펏펐펑펒펓펔펕펖펗페펙펚펛펜펝펞펟펠펡펢펣펤펥펦펧펨펩펪펫펬펭펮펯펰펱펲펳펴펵펶펷편펹펺펻펼펽펾펿폀폁폂폃폄폅폆폇폈평폊폋폌폍폎폏폐폑폒폓폔폕폖폗폘폙폚폛폜폝폞폟폠폡폢폣폤폥폦폧폨폩폪폫포폭폮폯폰폱폲폳폴폵폶폷폸폹폺폻폼폽폾폿풀풁풂풃풄풅풆풇품풉풊풋풌풍풎풏풐풑풒풓풔풕풖풗풘풙풚풛풜풝풞풟풠풡풢풣풤풥풦풧풨풩풪풫풬풭풮풯풰풱풲풳풴풵풶풷풸풹풺풻풼풽풾풿퓀퓁퓂퓃퓄퓅퓆퓇퓈퓉퓊퓋퓌퓍퓎퓏퓐퓑퓒퓓퓔퓕퓖퓗퓘퓙퓚퓛퓜퓝퓞퓟퓠퓡퓢퓣퓤퓥퓦퓧퓨퓩퓪퓫퓬퓭퓮퓯퓰퓱퓲퓳퓴퓵퓶퓷퓸퓹퓺퓻퓼퓽퓾퓿햀햁햂햃햄햅햆햇했행햊햋햌햍햎햏햐햑햒햓햔햕햖햗햘햙햚햛햜햝햞햟햠햡햢햣햤향햦햧햨햩햪햫햬햭햮햯햰햱햲햳햴햵햶햷햸햹햺햻햼햽햾햿헀헁헂헃헄헅헆헇허헉헊헋헌헍헎헏헐헑헒헓헔헕헖헗험헙헚헛헜헝헞헟헠헡헢헣헤헥헦헧헨헩헪헫헬헭헮헯헰헱헲헳헴헵헶헷헸헹헺헻헼헽헾헿횀횁횂횃횄횅횆횇횈횉횊횋회획횎횏횐횑횒횓횔횕횖횗횘횙횚횛횜횝횞횟횠횡횢횣횤횥횦횧효횩횪횫횬횭횮횯횰횱횲횳횴횵횶횷횸횹횺횻횼횽횾횿훀훁훂훃후훅훆훇훈훉훊훋훌훍훎훏훐훑훒훓훔훕훖훗훘훙훚훛훜훝훞훟훠훡훢훣훤훥훦훧훨훩훪훫훬훭훮훯훰훱훲훳훴훵훶훷훸훹훺훻훼훽훾훿힀힁힂힃힄힅힆힇히힉힊힋힌힍힎힏힐힑힒힓힔힕힖힗힘힙힚힛힜힝힞힟힠힡힢힣힤힥힦힧힨힩힪힫힬힭힮힯ힰힱힲힳힴힵힶힷힸힹힺힻힼힽힾힿퟀퟁퟂퟃퟄퟅퟆ퟇퟈퟉퟊ퟋퟌퟍퟎퟏퟐퟑퟒퟓퟔퟕퟖퟗퟘퟙퟚퟛퟜퟝퟞퟟퟠퟡퟢퟣퟤퟥퟦퟧퟨퟩퟪퟫퟬퟭퟮퟯퟰퟱퟲퟳퟴퟵퟶퟷퟸퟹퟺퟻ퟼퟽퟾퟿呂女廬旅濾礪閭驪麗黎力曆歷轢年憐戀撚漣煉璉秊練聯輦蓮連鍊列劣咽烈裂說廉念捻殮簾獵令囹寧嶺怜玲瑩羚聆鈴零靈領例禮醴隸惡了僚寮尿料樂燎療蓼遼龍暈阮劉杻柳流溜琉留硫紐類六戮陸倫崙淪輪律慄栗率隆利吏履易李梨泥理痢罹裏裡里離匿溺吝燐璘藺隣鱗麟林淋臨立笠粒狀炙識什茶刺婢嬨廒廙彩徭惘慎愈憎慠懲戴揄搜摒敖晴朗望杖歹殺流滛滋漢瀞煮瞧爵犯猪瑱甆画瘝瘟益盛直睊着磌窱節类絛練缾者荒華蝹襁覆視調諸請謁諾諭謹變贈輸遲醙鉶陼難靖韛響頋頻鬒龜𢡊𢡄𣏕㮝䀘䀹𥉉𥳐𧻓齃龎﫚﫛﫜﫝﫞﫟﫠﫡﫢﫣﫤﫥﫦﫧﫨﫩﫪﫫﫬﫭﫮﫯﫰﫱﫲﫳﫴﫵﫶﫷﫸﫹﫺﫻﫼﫽﫾﫿ﮀﮁﮂﮃﮄﮅﮆﮇﮈﮉﮊﮋﮌﮍﮎﮏﮐﮑﮒﮓﮔﮕﮖﮗﮘﮙﮚﮛﮜﮝﮞﮟﮠﮡﮢﮣﮤﮥﮦﮧﮨﮩﮪﮫﮬﮭﮮﮯﮰﮱ﮲﮳﮴﮵﮶﮷﮸﮹﮺﮻﮼﮽﮾﮿﯀﯁﯂﯃﯄﯅﯆﯇﯈﯉﯊﯋﯌﯍﯎﯏﯐﯑﯒ﯓﯔﯕﯖﯗﯘﯙﯚﯛﯜﯝﯞﯟﯠﯡﯢﯣﯤﯥﯦﯧﯨﯩﯪﯫﯬﯭﯮﯯﯰﯱﯲﯳﯴﯵﯶﯷﯸﯹﯺﯻﯼﯽﯾﯿﲀﲁﲂﲃﲄﲅﲆﲇﲈﲉﲊﲋﲌﲍﲎﲏﲐﲑﲒﲓﲔﲕﲖﲗﲘﲙﲚﲛﲜﲝﲞﲟﲠﲡﲢﲣﲤﲥﲦﲧﲨﲩﲪﲫﲬﲭﲮﲯﲰﲱﲲﲳﲴﲵﲶﲷﲸﲹﲺﲻﲼﲽﲾﲿﳀﳁﳂﳃﳄﳅﳆﳇﳈﳉﳊﳋﳌﳍﳎﳏﳐﳑﳒﳓﳔﳕﳖﳗﳘﳙﳚﳛﳜﳝﳞﳟﳠﳡﳢﳣﳤﳥﳦﳧﳨﳩﳪﳫﳬﳭﳮﳯﳰﳱﳲﳳﳴﳵﳶﳷﳸﳹﳺﳻﳼﳽﳾﳿﶀﶁﶂﶃﶄﶅﶆﶇﶈﶉﶊﶋﶌﶍﶎﶏ﶐﶑ﶒﶓﶔﶕﶖﶗﶘﶙﶚﶛﶜﶝﶞﶟﶠﶡﶢﶣﶤﶥﶦﶧﶨﶩﶪﶫﶬﶭﶮﶯﶰﶱﶲﶳﶴﶵﶶﶷﶸﶹﶺﶻﶼﶽﶾﶿﷀﷁﷂﷃﷄﷅﷆﷇ﷈﷉﷊﷋﷌﷍﷎﷏﷐﷑﷒﷓﷔﷕﷖﷗﷘﷙﷚﷛﷜﷝﷞﷟﷠﷡﷢﷣﷤﷥﷦﷧﷨﷩﷪﷫﷬﷭﷮﷯ﷰﷱﷲﷳﷴﷵﷶﷷﷸﷹﷺﷻ﷼﷽﷾﷿ﺀﺁﺂﺃﺄﺅﺆﺇﺈﺉﺊﺋﺌﺍﺎﺏﺐﺑﺒﺓﺔﺕﺖﺗﺘﺙﺚﺛﺜﺝﺞﺟﺠﺡﺢﺣﺤﺥﺦﺧﺨﺩﺪﺫﺬﺭﺮﺯﺰﺱﺲﺳﺴﺵﺶﺷﺸﺹﺺﺻﺼﺽﺾﺿﻀﻁﻂﻃﻄﻅﻆﻇﻈﻉﻊﻋﻌﻍﻎﻏﻐﻑﻒﻓﻔﻕﻖﻗﻘﻙﻚﻛﻜﻝﻞﻟﻠﻡﻢﻣﻤﻥﻦﻧﻨﻩﻪﻫﻬﻭﻮﻯﻰﻱﻲﻳﻴﻵﻶﻷﻸﻹﻺﻻﻼ﻽﻾﻿ﾀﾁﾂﾃﾄﾅﾆﾇﾈﾉﾊﾋﾌﾍﾎﾏﾐﾑﾒﾓﾔﾕﾖﾗﾘﾙﾚﾛﾜﾝﾞﾟﾠﾡﾢﾣﾤﾥﾦﾧﾨﾩﾪﾫﾬﾭﾮﾯﾰﾱﾲﾳﾴﾵﾶﾷﾸﾹﾺﾻﾼﾽﾾ﾿￀￁ￂￃￄￅￆￇ￈￉ￊￋￌￍￎￏ￐￑ￒￓￔￕￖￗ￘￙ￚￛￜ￝￞￟￠￡￢￣￤￥￦￧￨￩￪￫￬￭￮￯￰￱￲￳￴￵￶￷￸￹￺￻￼�￾￿"

\* A bytes value is a string of the characters U+0001 to U+00FF, each for
\* the byte of its number.  These are the bytes from 80 to FF.
HighBytes == SubSeq(HighChars, 1, 128)

HighByteSet == CharsOf(HighBytes)

\* The number of a byte from 80 to FF.
Ord(c) == 127 + Find(HighBytes, c, 1)

\* chr(cp) for a character from U+0080 on.  The value is not defined for a
\* character that a string of the model cannot hold.
Chr(cp) ==
    LET page == cp \div 256
        low == cp % 256
    IN IF cp < 65536 /\ low >= 128 /\ (page < 216 \/ page > 223)
       THEN CharAt(HighChars,
                   (IF page < 216 THEN page ELSE page - 8) * 128 + (low - 128) + 1)
       ELSE CHOOSE character \in {} : TRUE

\* The UTF-8 sequence that starts at the byte p of b, a byte from 80 to FF:
\* its length and the number of its character; the length is 0 when the
\* bytes from p are no sequence of UTF-8 (a continuation byte or one that
\* no sequence starts with, a missing continuation byte, an overlong form,
\* a surrogate, a number above U+10FFFF).
DecodeAt(b, p) ==
    LET b0 == Ord(CharAt(b, p))
        Byte(k) == Ord(CharAt(b, p + k))
        Cont(k) == /\ p + k <= Len(b)
                   /\ CharAt(b, p + k) \in HighByteSet
                   /\ Byte(k) < 192
    IN IF b0 >= 194 /\ b0 <= 223 /\ Cont(1)
       THEN [len |-> 2, cp |-> (b0 - 192) * 64 + (Byte(1) - 128)]
       ELSE IF /\ b0 >= 224 /\ b0 <= 239
               /\ Cont(1) /\ Cont(2)
               /\ (b0 = 224 => Byte(1) >= 160)
               /\ (b0 = 237 => Byte(1) <= 159)
       THEN [len |-> 3,
             cp |-> (b0 - 224) * 4096 + (Byte(1) - 128) * 64 + (Byte(2) - 128)]
       ELSE IF /\ b0 >= 240 /\ b0 <= 244
               /\ Cont(1) /\ Cont(2) /\ Cont(3)
               /\ (b0 = 240 => Byte(1) >= 144)
               /\ (b0 = 244 => Byte(1) <= 143)
       THEN [len |-> 4,
             cp |-> (b0 - 240) * 262144 + (Byte(1) - 128) * 4096
                        + (Byte(2) - 128) * 64 + (Byte(3) - 128)]
       ELSE [len |-> 0, cp |-> 0]

\* b.decode(): the text of the bytes b read as UTF-8; ok is FALSE when the
\* decoding raises UnicodeDecodeError.
RECURSIVE Decode(_)
Decode(b) ==
    LET high == {i \in 1..Len(b) : CharAt(b, i) \in HighByteSet} IN
    IF high = {} THEN [ok |-> TRUE, text |-> b]
    ELSE LET p == Min(high)
             d == DecodeAt(b, p)
         IN IF d.len = 0 THEN [ok |-> FALSE, text |-> ""]
            ELSE LET rest == Decode(SubSeq(b, p + d.len, Len(b))) IN
                 IF rest.ok
                 THEN [ok |-> TRUE, text |-> SubSeq(b, 1, p - 1) \o Chr(d.cp) \o rest.text]
                 ELSE [ok |-> FALSE, text |-> ""]

\* _get_git_log(): the output of git, stripped as bytes of the white space
\* at its ends and decoded.
GetGitLog(stdout) == Decode(Strip(stdout, BytesWhitespace))

\* The test of line 88: the previous notes ask to skip the autogeneration.
SkipRequested(previous) ==
    Truthy(previous) /\ Contains(previous[1], SKIP_INDICATOR)

\* As MergeNotes, but without trimming the newlines of the previous notes.
MergeNotesUntrimmed(previous, notes) ==
    LET before == Split(previous, AUTO_GENERATION_START_INDICATOR) IN
    Strip(Join("\n", <<before[1], notes, AfterGeneratedSection(before)>>),
          {"\"", "\n"})

\* As MergeNotes, but leaving the text of the previous notes on the lines
\* of the indicators.
MergeNotesOnSameLine(previous, notes) ==
    LET before == Split(previous, AUTO_GENERATION_START_INDICATOR) IN
    Strip(Join("", << Strip(before[1], {"\n"}),
                      notes,
                      Strip(AfterGeneratedSection(before), {"\n"}) >>),
          {"\"", "\n"})

\* Lines 99-110 of compile_release_notes: the new notes merged into the
\* previous ones.
MergeNotes(previous, notes) ==
    LET before == Split(previous, AUTO_GENERATION_START_INDICATOR) IN
    Strip(Join("\n", << Strip(before[1], {"\n"}),
                        notes,
                        Strip(AfterGeneratedSection(before), {"\n"}) >>),
          {"\"", "\n"})

\* Lines 96-110 of compile_release_notes: the value returned once the
\* notes are built.
ReturnedNotes(previous, notes) ==
    IF ~Truthy(previous) THEN notes ELSE MergeNotes(previous[1], notes)

(***************************************************************************)
(* Bounds of the model and the inputs drawn within them.                   *)
(***************************************************************************)
MaxLog == 3       \* commits in the log
MaxMarks == 2     \* indicators in a hand-written pull request description
MaxRuns == 2      \* runs of the compiler, each on the description the last one wrote

\* Values of the stop_point argument.
StopPointInputs ==
    {"LAST_RELEASE", "LAST_PULL_REQUEST", "last_release", "Last_Pull_Request",
     "blah", "LAST_RELEASES"}

PULL_REQUEST_URL == "https://api.github.com/repos/o/r/pulls/11"

\* Values of the pull_request_url argument: None, "" and a URL.
UrlInputs == {None, Some(""), Some(PULL_REQUEST_URL)}

\* Lines of the log: <header>|<decoration>, and lines that are not commits.
CommitLines ==
    {"REF: Merge modules| (HEAD -> main)",
     "MRG: Merge pull request #3 from o/f|",
     "CHO: Remove hook| (tag: 0.0.3, main)",
     "FIX: Fix a bug| (tag: v1)",
     "Merge pull request #4 from o/g| (tag: 1.12.0)",
     "Not in the right format|",
     "ENH: a|b|c"}

\* The logs of at most n lines, most recent commit first.
RECURSIVE Logs(_)
Logs(n) ==
    IF n = 0 THEN {""}
    ELSE LET shorter == Logs(n - 1) IN
         shorter \cup {IF l = "" THEN c ELSE c \o "\n" \o l : c \in CommitLines, l \in shorter}

\* Number of lines of a log.
LogLength(l) == Len(SplitLines(l))

\* Hand-written text around the indicators.
Texts == {"", "\"\nYUM\n"}

Marks == {AUTO_GENERATION_START_INDICATOR, AUTO_GENERATION_END_INDICATOR, SKIP_INDICATOR}

\* A start indicator pasted into the middle of another one.
NestedStart ==
    SubSeq(AUTO_GENERATION_START_INDICATOR, 1, 19)
        \o AUTO_GENERATION_START_INDICATOR
        \o SubSeq(AUTO_GENERATION_START_INDICATOR, 20, Len(AUTO_GENERATION_START_INDICATOR))

\* The texts with at most n indicators in them.
RECURSIVE Marked(_)
Marked(n) ==
    IF n = 0 THEN Texts
    ELSE LET fewer == Marked(n - 1) IN
         fewer \cup {t \o m \o d : t \in Texts, m \in Marks, d \in fewer}

\* Hand-written descriptions of a pull request: a text with at most MaxMarks
\* indicators, possibly followed by a nested one.
Descriptions == {Some(d \o e) : d \in Marked(MaxMarks), e \in {"", NestedStart}}

\* The descriptions a single run is tried on with every log: none, an empty
\* one, and two that ask to skip the autogeneration, one outside the
\* autogenerated section and one inside it.
FewDescriptions ==
    {None, Some(""),
     Some("BLAH\n" \o AUTO_GENERATION_START_INDICATOR \o "\nOLD\n"
              \o AUTO_GENERATION_END_INDICATOR \o "YUM\"" \o SKIP_INDICATOR \o "\n"),
     Some("\n" \o AUTO_GENERATION_START_INDICATOR \o "\nOLD" \o SKIP_INDICATOR
              \o AUTO_GENERATION_END_INDICATOR)}

\* The log the repeated runs start from, and the commits added between them.
FirstLog == "REF: Merge modules| (HEAD -> main)"
NewCommitLines == {"FIX: Fix a bug|"}

(***************************************************************************)
(* The state machine: runs of the compiler on a pull request.              *)
(***************************************************************************)
Fresh ==
    /\ pc = "new"
    /\ error = ""
    /\ stop_point = ""
    /\ previous_notes = None
    /\ header = ""
    /\ list_item_symbol = ""
    /\ mapping = <<>>
    /\ parsed_commits = <<>>
    /\ unparsed_commits = <<>>
    /\ categorised_commit_messages = <<>>
    /\ autogenerated = None
    /\ result = None
    /\ calls = <<>>
    /\ last_output = None
    /\ runs = 0

\* One run: every log, with the few descriptions.
Init ==
    /\ description \in FewDescriptions
    /\ git_log \in Logs(MaxLog)
    /\ Fresh

\* Descriptions with one autogenerated section: text before and after it on
\* the line of its indicators or on a line of its own, and a section that
\* is empty, a line break or a line of text.
SectionDescriptions ==
    {Some(p \o AUTO_GENERATION_START_INDICATOR \o m
              \o AUTO_GENERATION_END_INDICATOR \o s) :
        p \in {"", "BLAH", "BLAH\n"},
        m \in {"", "\n", "\nOLD\n"},
        s \in {"", "YUM", "\nYUM"}}

\* Repeated runs: every hand-written description, with the first log.
InitRerun ==
    /\ description \in Descriptions \cup SectionDescriptions
    /\ git_log = FirstLog
    /\ Fresh

\* ReleaseNoteCompiler.__init__(stop_point, pull_request_url, header,
\* list_item_symbol, commit_codes_to_headings_mapping); a mapping that is None
\* or empty gives way to the default one.
ConstructWith(sp, url, hdr, symbol, m) ==
    /\ pc = "new"
    /\ runs < MaxRuns
    /\ runs' = runs + 1
    /\ IF Upper(sp) \notin {LAST_RELEASE, LAST_PULL_REQUEST}
       THEN /\ pc' = "raised"
            /\ error' = "ValueError"
            /\ UNCHANGED <<stop_point, previous_notes, header, list_item_symbol,
                           mapping, calls>>
       ELSE /\ pc' = "constructed"
            /\ error' = ""
            /\ stop_point' = Upper(sp)
            /\ IF Truthy(url)
               THEN previous_notes' = description /\ calls' = <<"description">>
               ELSE previous_notes' = None /\ calls' = <<>>
            /\ header' = hdr
            /\ list_item_symbol' = symbol
            /\ mapping' = IF m = <<>> THEN COMMIT_CODES_TO_HEADINGS_MAPPING ELSE m
    /\ UNCHANGED <<description, git_log, parsed_commits, unparsed_commits,
                   categorised_commit_messages, autogenerated, result, last_output>>

\* ReleaseNoteCompiler.__init__(stop_point, pull_request_url), the other
\* arguments left to their defaults.
Construct(sp, url) ==
    ConstructWith(sp, url, DEFAULT_HEADER, DEFAULT_LIST_ITEM_SYMBOL, None)

\* ReleaseNoteCompiler.compile_release_notes()
CompileReleaseNotes ==
    /\ pc = "constructed"
    /\ IF SkipRequested(previous_notes)
       THEN /\ result' = previous_notes
            /\ pc' = "returned"
            /\ UNCHANGED <<error, parsed_commits, unparsed_commits, categorised_commit_messages,
                           autogenerated, calls>>
       ELSE IF ~GetGitLog(git_log).ok
       THEN /\ calls' = Append(calls, "log")
            /\ pc' = "raised"
            /\ error' = "UnicodeDecodeError"
            /\ UNCHANGED <<parsed_commits, unparsed_commits, categorised_commit_messages,
                           autogenerated, result>>
       ELSE LET commits == ParseCommitMessages(stop_point, GetGitLog(git_log).text)
                categorisation ==
                    CategoriseCommitMessages(mapping, commits.parsed, commits.unparsed)
                notes == BuildReleaseNotes(header, list_item_symbol,
                                           categorisation.notes)
            IN /\ calls' = Append(calls, "log")
               /\ parsed_commits' = commits.parsed
               /\ unparsed_commits' = commits.unparsed
               /\ IF categorisation.raised
                  THEN /\ pc' = "raised"
                       /\ error' = "KeyError"
                       /\ UNCHANGED <<categorised_commit_messages, autogenerated, result>>
                  ELSE /\ pc' = "returned"
                       /\ categorised_commit_messages' = categorisation.notes
                       /\ autogenerated' = Some(notes)
                       /\ result' = Some(ReturnedNotes(previous_notes, notes))
                       /\ UNCHANGED error
    /\ UNCHANGED <<description, git_log, stop_point, previous_notes, header,
                   list_item_symbol, mapping, last_output, runs>>

\* The caller writes the notes back as the description of the pull request,
\* and the compiler object is gone: the next run starts from a new one.
UpdateDescription ==
    /\ pc = "returned"
    /\ runs < MaxRuns
    /\ description' = result
    /\ last_output' = result
    /\ pc' = "new"
    /\ stop_point' = ""
    /\ previous_notes' = None
    /\ header' = ""
    /\ list_item_symbol' = ""
    /\ mapping' = <<>>
    /\ parsed_commits' = <<>>
    /\ unparsed_commits' = <<>>
    /\ categorised_commit_messages' = <<>>
    /\ autogenerated' = None
    /\ result' = None
    /\ calls' = <<>>
    /\ UNCHANGED <<git_log, error, runs>>

\* A commit is added to the branch between two runs: the log gains a line
\* at its head.
Commit(line) ==
    /\ pc = "new"
    /\ runs >= 1
    /\ LogLength(GetGitLog(git_log).text) < MaxLog
    /\ git_log' = IF git_log = "" THEN line ELSE line \o "\n" \o git_log
    /\ UNCHANGED <<description, pc, error, stop_point, previous_notes, header,
                   list_item_symbol, mapping, parsed_commits, unparsed_commits,
                   categorised_commit_messages, autogenerated, result, calls, last_output, runs>>

\* One run of the compiler, for every stop point and pull request URL.
Next ==
    \/ \E sp \in StopPointInputs, url \in UrlInputs : Construct(sp, url)
    \/ CompileReleaseNotes

Spec == Init /\ [][Next]_vars

\* Runs of the compiler on the description of one pull request, which each
\* run rewrites, while the branch gains commits.
NextRerun ==
    \/ Construct(LAST_PULL_REQUEST, Some(PULL_REQUEST_URL))
    \/ CompileReleaseNotes
    \/ UpdateDescription
    \/ \E line \in NewCommitLines : Commit(line)

SpecRerun == InitRerun /\ [][NextRerun]_vars

\* Lines of the log the parser is tried on: headers with several colons,
\* without a colon, with spaces around them, a merge of one commit into
\* another, lines without a separator or with two, and a stop commit for
\* each stop point.
ParseLines ==
    {"OPS: My message: something|",
     "This is not in the right format|",
     "  Another one  | (origin/main)",
     " fix : a:b :c | (HEAD -> main) ",
     "Merge ef77729 into b043bc8|",
     "Merge pull request #5 from o/h",
     "FIX: a|b| (tag: 1.0.0)",
     "CHO: Remove hook| (tag: 0.0.3, main)",
     "Merge pull request #4 from o/g|"}

\* The logs of at most n lines drawn from the set lines.
RECURSIVE LogsOf(_, _)
LogsOf(lines, n) ==
    IF n = 0 THEN {""}
    ELSE LET shorter == LogsOf(lines, n - 1) IN
         shorter \cup {IF l = "" THEN c ELSE c \o "\n" \o l : c \in lines, l \in shorter}

\* The bytes of a log in UTF-8 with characters beyond ASCII: an ogham
\* space mark before the message "caf" and e with acute accent, a no-break
\* space after it, and a tag 1.2.3 in extended Arabic-Indic digits.
Utf8Log == "ENH: b|\nFIX:ácafÃ©Â | (tag: Û±.Û².Û³)\nCHO: c|"

\* The bytes git prints for a tag named in Latin-1: they are not UTF-8.
UndecodableLog == "FIX: second| (HEAD -> main)\nFIX: first| (tag: café)"

\* One run without a pull request, on every log of the parser's lines and
\* on the two logs with bytes beyond ASCII.
InitParse ==
    /\ description = None
    /\ git_log \in LogsOf(ParseLines, MaxLog) \cup {Utf8Log, UndecodableLog}
    /\ Fresh

NextParse ==
    \/ \E sp \in {LAST_RELEASE, LAST_PULL_REQUEST} : Construct(sp, None)
    \/ CompileReleaseNotes

SpecParse == InitParse /\ [][NextParse]_vars

MaxSectionLog == 2    \* commits in a log of the runs with other settings

\* A commit for each code of the default mapping, one with a code that no
\* mapping holds, one with a known code in lower case and one without a
\* code, as a log that holds them all.
SectionLineSeq ==
    <<"FEA: Add a feature|", "ENH: Enhance it|", "FIX: Fix a bug|",
      "OPS: Update the workflow|", "DEP: Bump a version|", "REF: Merge modules|",
      "TST: Test it|", "MRG: Merge main into feature|", "REV: Revert a change|",
      "CHO: Remove hook|", "WIP: Start something|", "DOC: Describe it|",
      "STY: Format it|", "BAM: An unrecognised commit code|",
      "fix: Fix in lower case|", "This is not in the right format|">>

SectionLines == {SectionLineSeq[i] : i \in 1..Len(SectionLineSeq)}

FullLog == Join("\n", SectionLineSeq)

ReversedFullLog ==
    Join("\n", [i \in 1..Len(SectionLineSeq) |->
                    SectionLineSeq[Len(SectionLineSeq) + 1 - i]])

\* Mappings given in place of the default one: one that maps a code to
\* "### Other" between two other headings, and one that maps none to it.
MappingWithOther ==
    << <<"FIX", "### Bug fixes">>,
       <<"DOC", "### Other">>,
       <<"FEA", "### New features">>,
       <<"OPS", "### Bug fixes">> >>

MappingWithoutOther ==
    << <<"FEA", "### New features">>,
       <<"FIX", "### Fixes">> >>

\* The header, list_item_symbol and commit_codes_to_headings_mapping
\* arguments a compiler is constructed with: the defaults, other values, and
\* an empty header and symbol.
Settings ==
    {[hdr |-> DEFAULT_HEADER, symbol |-> DEFAULT_LIST_ITEM_SYMBOL, m |-> None],
     [hdr |-> "# Release notes", symbol |-> "* ", m |-> MappingWithOther],
     [hdr |-> DEFAULT_HEADER, symbol |-> "- ", m |-> MappingWithoutOther],
     [hdr |-> "", symbol |-> "", m |-> None]}

\* The merge of a pull request, the stop point of these runs.
SectionStopLine == "MRG: Merge pull request #3 from o/f|"

\* One run without a pull request, on the short logs of these commits and
\* of the stop commit, and on the log of all the commits in both orders.
InitSections ==
    /\ description = None
    /\ git_log \in LogsOf(SectionLines \cup {SectionStopLine}, MaxSectionLog)
                        \cup {FullLog, ReversedFullLog}
    /\ Fresh

NextSections ==
    \/ \E st \in Settings :
          ConstructWith(LAST_PULL_REQUEST, None, st.hdr, st.symbol, st.m)
    \/ CompileReleaseNotes

SpecSections == InitSections /\ [][NextSections]_vars

(***************************************************************************)
(* Notions the properties are stated in.                                   *)
(***************************************************************************)
\* What git prints is text in UTF-8, so that the compiler has a log to read.
Decodable == GetGitLog(git_log).ok

\* The log the compiler reads: the text of what git prints.
DecodedLog == GetGitLog(git_log).text

\* The positions of s where pat occurs, overlapping ones included.
Occurrences(s, pat) == {i \in 1..Len(s) : OccursAt(s, pat, i)}

StartsWith(s, pat) == OccursAt(s, pat, 1)
EndsWith(s, pat) == OccursAt(s, pat, Len(s) - Len(pat) + 1)

Newline == {"\n"}
QuoteOrNewline == {"\"", "\n"}

\* The compiler returned notes it has compiled from the log.
Compiled == pc = "returned" /\ autogenerated # None

\* The compiler returned notes merged into previous ones.
Merged == Compiled /\ Truthy(previous_notes)

\* s holds each of the two indicators once, the start one first, and no
\* skip indicator.
HasOneSection(s) ==
    /\ Cardinality(Occurrences(s, AUTO_GENERATION_START_INDICATOR)) = 1
    /\ Cardinality(Occurrences(s, AUTO_GENERATION_END_INDICATOR)) = 1
    /\ Occurrences(s, SKIP_INDICATOR) = {}
    /\ \A i \in Occurrences(s, AUTO_GENERATION_START_INDICATOR) :
         \A j \in Occurrences(s, AUTO_GENERATION_END_INDICATOR) :
            i + Len(AUTO_GENERATION_START_INDICATOR) <= j

\* The parts P, M and S of s = P + start + M + end + S.
SectionPrefix(s) ==
    LET i == CHOOSE k \in Occurrences(s, AUTO_GENERATION_START_INDICATOR) : TRUE
    IN SubSeq(s, 1, i - 1)

SectionBody(s) ==
    LET i == CHOOSE k \in Occurrences(s, AUTO_GENERATION_START_INDICATOR) : TRUE
        j == CHOOSE k \in Occurrences(s, AUTO_GENERATION_END_INDICATOR) : TRUE
    IN SubSeq(s, i + Len(AUTO_GENERATION_START_INDICATOR), j - 1)

SectionSuffix(s) ==
    LET j == CHOOSE k \in Occurrences(s, AUTO_GENERATION_END_INDICATOR) : TRUE
    IN SubSeq(s, j + Len(AUTO_GENERATION_END_INDICATOR), Len(s))

\* C1: with previous notes P + start + M + end + S (each indicator once, no
\* skip indicator) the result is P trimmed of newlines, a line break if P
\* is not empty, the new notes, a line break if S is not empty, S trimmed
\* of newlines, the whole stripped of leading and trailing quotes and
\* newlines; M is replaced and is nowhere in the result.
C1_SectionOverwritten ==
    (Merged /\ HasOneSection(previous_notes[1])) =>
        LET P == SectionPrefix(previous_notes[1])
            M == SectionBody(previous_notes[1])
            S == SectionSuffix(previous_notes[1])
            N == autogenerated[1]
        IN /\ result = Some(Strip(Strip(P, Newline)
                                      \o (IF P # "" THEN "\n" ELSE "")
                                      \o N
                                      \o (IF S # "" THEN "\n" ELSE "")
                                      \o Strip(S, Newline),
                                  QuoteOrNewline))
           /\ (M # "" /\ ~Contains(P \o "\n" \o N \o "\n" \o S, M))
                 => ~Contains(result[1], M)

\* A run that replaced a non-empty section between a non-empty prefix and a
\* non-empty suffix.
C1_Witness ==
    /\ Merged
    /\ HasOneSection(previous_notes[1])
    /\ SectionPrefix(previous_notes[1]) # ""
    /\ SectionBody(previous_notes[1]) # ""
    /\ SectionSuffix(previous_notes[1]) # ""
    /\ ~Contains(result[1], SectionBody(previous_notes[1]))
    /\ runs = 1

\* The description of the pull request was retrieved by this run.
Retrieved == Len(calls) >= 1 /\ calls[1] = "description"

\* C2: if the previous notes hold the skip indicator anywhere, they are
\* returned unchanged, whatever the log and the stop point, and nothing is
\* parsed, rendered or merged.
C2_SkipReturnsPrevious ==
    (pc = "returned" /\ Retrieved /\ description # None
        /\ Occurrences(description[1], SKIP_INDICATOR) # {}) =>
        /\ result = description
        /\ autogenerated = None
        /\ parsed_commits = <<>>
        /\ unparsed_commits = <<>>

\* A run on a description that asks to skip inside its autogenerated
\* section, with commits in the log.
C2_Witness ==
    /\ pc = "returned"
    /\ Retrieved
    /\ description # None
    /\ result = description
    /\ Contains(description[1],
                SKIP_INDICATOR \o AUTO_GENERATION_END_INDICATOR)
    /\ LogLength(DecodedLog) = MaxLog
    /\ stop_point = LAST_RELEASE

\* C3: without previous notes (no pull request URL, or a description that is
\* None or empty) the result is the freshly rendered notes and nothing else:
\* it starts with the start indicator and ends with the end indicator.
C3_AbsentReturnsRendered ==
    (pc = "returned" /\ (~Retrieved \/ description \in {None, Some("")})) =>
        /\ autogenerated # None
        /\ result = autogenerated
        /\ StartsWith(result[1], AUTO_GENERATION_START_INDICATOR \o "\n" \o header \o "\n\n")
        /\ EndsWith(result[1], AUTO_GENERATION_END_INDICATOR)

\* A run that retrieved an empty description and rendered a section.
C3_Witness ==
    /\ pc = "returned"
    /\ Retrieved
    /\ description = Some("")
    /\ result = autogenerated
    /\ parsed_commits # <<>>

\* The previous notes are not empty and hold neither a start nor a skip
\* indicator.
NoSection(s) ==
    /\ s # ""
    /\ Occurrences(s, AUTO_GENERATION_START_INDICATOR) = {}
    /\ Occurrences(s, SKIP_INDICATOR) = {}

\* C4 as claimed: previous notes without a start (or skip) indicator are
\* followed by one line break and the new notes, and kept as they are.
C4_Original ==
    (Merged /\ NoSection(previous_notes[1])) =>
        result = Some(previous_notes[1] \o "\n" \o autogenerated[1])

\* C4, amended: previous notes without a start (or skip) indicator are kept
\* whole as the prefix, trimmed of their leading and trailing newlines and
\* followed by one line break and the new notes, the whole stripped of its
\* leading quotes and newlines; nothing follows the end indicator.
C4_AppendedAfterPrevious ==
    (Merged /\ NoSection(previous_notes[1])) =>
        /\ result = Some(LStrip(Strip(previous_notes[1], Newline) \o "\n", QuoteOrNewline)
                             \o autogenerated[1])
        /\ EndsWith(result[1], autogenerated[1])

\* A run that appended the notes to previous notes with an end indicator
\* and no start indicator, trimming a newline and a quote.
C4_Witness ==
    /\ Merged
    /\ NoSection(previous_notes[1])
    /\ Occurrences(previous_notes[1], AUTO_GENERATION_END_INDICATOR) # {}
    /\ result # Some(previous_notes[1] \o "\n" \o autogenerated[1])
    /\ StartsWith(result[1], "YUM")

\* The text before the first start indicator of s (all of s without one).
BeforeSection(s) ==
    IF Occurrences(s, AUTO_GENERATION_START_INDICATOR) = {} THEN s
    ELSE SubSeq(s, 1, Min(Occurrences(s, AUTO_GENERATION_START_INDICATOR)) - 1)

\* The text after the last end indicator of s (nothing without one).
AfterSection(s) ==
    IF Occurrences(s, AUTO_GENERATION_END_INDICATOR) = {} THEN ""
    ELSE SubSeq(s, Max(Occurrences(s, AUTO_GENERATION_END_INDICATOR))
                      + Len(AUTO_GENERATION_END_INDICATOR), Len(s))

\* C5: a run on the notes the previous run returned leaves the text before
\* the start indicator and the text after the end indicator as they were,
\* and notes merged into equal notes are returned unchanged.
C5_RerunStable ==
    (pc = "returned" /\ last_output # None /\ previous_notes = last_output) =>
        /\ BeforeSection(result[1]) = BeforeSection(last_output[1])
        /\ AfterSection(result[1]) = AfterSection(last_output[1])
        /\ (autogenerated = last_output => result = last_output)

\* The pairs of a letter and the same letter in the other case.
CasePairs ==
    UNION {{<<CharAt(LowerCase, i), CharAt(UpperCase, i)>>,
            <<CharAt(UpperCase, i), CharAt(LowerCase, i)>>} : i \in 1..Len(LowerCase)}

\* a and b are equal but for the case of their letters.
SameIgnoringCase(a, b) ==
    /\ Len(a) = Len(b)
    /\ \A i \in 1..Len(a) :
         \/ CharAt(a, i) = CharAt(b, i)
         \/ <<CharAt(a, i), CharAt(b, i)>> \in CasePairs

StopPoints == {LAST_RELEASE, LAST_PULL_REQUEST}

\* C6: a stop point that is neither LAST_RELEASE nor LAST_PULL_REQUEST in
\* any letter case makes the construction raise ValueError before anything
\* else is done; a valid one is stored in upper case, so a constructed
\* compiler always holds one of the two.
C6_StopPointValidated ==
    /\ [](pc \in {"constructed", "returned"} => stop_point \in StopPoints)
    /\ [][\A sp \in StopPointInputs, url \in UrlInputs :
            Construct(sp, url) =>
                IF \E v \in StopPoints : SameIgnoringCase(sp, v)
                THEN /\ pc' = "constructed"
                     /\ SameIgnoringCase(sp, stop_point')
                     /\ stop_point' \in StopPoints
                ELSE /\ pc' = "raised"
                     /\ error' = "ValueError"
                     /\ calls' = <<>>
                     /\ UNCHANGED <<stop_point, previous_notes, header,
                                    list_item_symbol, mapping, result>>]_vars

\* A construction that raised ValueError with nothing retrieved.
C6_Witness ==
    /\ pc = "raised"
    /\ error = "ValueError"
    /\ calls = <<>>
    /\ stop_point = ""
    /\ description # None

\* The log lines that are commits: exactly one separator.
WellFormed(l) == Cardinality(Occurrences(l, "|")) = 1
WellFormedLines(log) == SelectSeq(SplitLines(log), WellFormed)

\* The header and the decoration of a commit line.
HeaderOf(l) == SubSeq(l, 1, Min(Occurrences(l, "|")) - 1)
DecorationOf(l) == SubSeq(l, Min(Occurrences(l, "|")) + 1, Len(l))

HasColon(l) == Occurrences(HeaderOf(l), ":") # {}
HasNoColon(l) == ~HasColon(l)

\* The characters from..to of s exist and are digits.
AllDigits(s, from, to) ==
    /\ from <= to
    /\ to <= Len(s)
    /\ \A k \in from..to : CharAt(s, k) \in Digits

\* d holds "tag: <digits>.<digits>.<digits>".
ReleaseTagged(d) ==
    \E i \in Occurrences(d, "tag: ") :
        \E a \in 1..Len(d) : \E b \in 1..Len(d) :
            /\ AllDigits(d, i + 5, i + 4 + a)
            /\ CharAt(d, i + 5 + a) = "."
            /\ AllDigits(d, i + 6 + a, i + 5 + a + b)
            /\ CharAt(d, i + 6 + a + b) = "."
            /\ AllDigits(d, i + 7 + a + b, i + 7 + a + b)

IsReleaseCommit(l) ==
    Occurrences(DecorationOf(l), "tag") # {} /\ ReleaseTagged(DecorationOf(l))

IsPullRequestMerge(l) == Occurrences(HeaderOf(l), PULL_REQUEST_INDICATOR) # {}

\* The stop-point condition of a commit line under stop point sp.
StopsAt(sp, l) ==
    \/ sp = LAST_RELEASE /\ IsReleaseCommit(l)
    \/ sp = LAST_PULL_REQUEST /\ IsPullRequestMerge(l)

\* The position in W of the first commit traversal stops at, Len(W) + 1
\* when there is none.
FirstStop(sp, W) ==
    Min({k \in 1..Len(W) : StopsAt(sp, W[k])} \cup {Len(W) + 1})

\* The entry of a commit line with a colon in its header: the code before
\* the first colon, the message after it, the decoration, all trimmed.
EntryOf(l) ==
    LET h == HeaderOf(l)
        c == Min(Occurrences(h, ":"))
    IN <<StripWs(SubSeq(h, 1, c - 1)), StripWs(SubSeq(h, c + 1, Len(h))),
         StripWs(DecorationOf(l))>>

EntriesOf(ls) == [i \in 1..Len(ls) |-> EntryOf(ls[i])]
TrimmedHeadersOf(ls) == [i \in 1..Len(ls) |-> StripWs(HeaderOf(ls[i]))]

\* The commits of the log before the stop point.
Included == LET W == WellFormedLines(DecodedLog) IN SubSeq(W, 1, FirstStop(stop_point, W) - 1)

\* The number of list items of the notes.
ListItems(notes) == Cardinality(Occurrences(notes, "\n" \o list_item_symbol))

\* C7: traversal halts at the first well-formed line the stop-point
\* condition holds for: the parsed and unparsed entries are those of the
\* well-formed lines strictly before it, in log order, and of all of them
\* when no line matches.
C7_HaltsAtFirstStop ==
    Compiled =>
        /\ parsed_commits = EntriesOf(SelectSeq(Included, HasColon))
        /\ unparsed_commits = TrimmedHeadersOf(SelectSeq(Included, HasNoColon))

\* A run that stopped at the second of three commits, the third of which
\* is no stop point.
C7_Witness ==
    /\ Compiled
    /\ LET W == WellFormedLines(DecodedLog) IN
         /\ Len(W) = 3
         /\ FirstStop(stop_point, W) = 2
         /\ ~StopsAt(stop_point, W[3])
    /\ Len(parsed_commits) + Len(unparsed_commits) = 1

\* The lines of the section of the notes under heading, "" without one.
SectionOf(notes, heading) ==
    LET i == Find(notes, "\n" \o heading \o "\n", 1)
        from == i + Len(heading) + 1
    IN IF i = 0 THEN "" ELSE SubSeq(notes, from, Find(notes, "\n\n", from))

\* The position in W of the first commit that satisfies Test, Len(W) + 1
\* when there is none.
FirstOf(W, Test(_)) == Min({k \in 1..Len(W) : Test(W[k])} \cup {Len(W) + 1})

\* C8: under LAST_RELEASE a commit is the stop point exactly if its
\* decoration holds "tag" and a tag "tag: <digits>.<digits>.<digits>": the
\* commits before the first such one are all in the notes, with any other
\* tag, and a pull request merge among them is listed, under "### Other"
\* when its code is MRG.
C8_LastReleaseStop ==
    (Compiled /\ stop_point = LAST_RELEASE) =>
        LET W == WellFormedLines(DecodedLog)
            k == FirstOf(W, IsReleaseCommit)
        IN /\ Len(parsed_commits) + Len(unparsed_commits) = k - 1
           /\ ListItems(autogenerated[1]) = k - 1
           /\ \A i \in 1..(k - 1) :
                (IsPullRequestMerge(W[i]) /\ HasColon(W[i])) =>
                    /\ \E j \in 1..Len(parsed_commits) : parsed_commits[j] = EntryOf(W[i])
                    /\ EntryOf(W[i])[1] = "MRG" =>
                          Contains(SectionOf(autogenerated[1], OTHER_HEADING),
                                   "\n" \o list_item_symbol \o EntryOf(W[i])[2] \o "\n")

\* A run under LAST_RELEASE that listed a commit with another tag and a
\* pull request merge, and stopped at the release commit after them.
C8_Witness ==
    /\ Compiled
    /\ stop_point = LAST_RELEASE
    /\ LET W == WellFormedLines(DecodedLog) IN
         /\ Len(W) = 3
         /\ FirstOf(W, IsReleaseCommit) = 3
         /\ Occurrences(DecorationOf(W[1]), "tag") # {}
         /\ IsPullRequestMerge(W[2])
    /\ Contains(SectionOf(autogenerated[1], OTHER_HEADING), PULL_REQUEST_INDICATOR)

\* C9: under LAST_PULL_REQUEST a commit is the stop point exactly if its
\* header holds "Merge pull request #", whatever its decoration: the commits
\* before the first such one are all in the notes, release commits
\* included, and the merge commit is not.
C9_LastPullRequestStop ==
    (Compiled /\ stop_point = LAST_PULL_REQUEST) =>
        LET W == WellFormedLines(DecodedLog)
            k == FirstOf(W, IsPullRequestMerge)
        IN /\ Len(parsed_commits) + Len(unparsed_commits) = k - 1
           /\ ListItems(autogenerated[1]) = k - 1
           /\ \A i \in 1..(k - 1) :
                (IsReleaseCommit(W[i]) /\ HasColon(W[i])) =>
                    \E j \in 1..Len(parsed_commits) : parsed_commits[j] = EntryOf(W[i])
           /\ ~Contains(autogenerated[1], PULL_REQUEST_INDICATOR)

\* A run under LAST_PULL_REQUEST that listed a release commit and stopped
\* at a merge commit without decoration after it.
C9_Witness ==
    /\ Compiled
    /\ stop_point = LAST_PULL_REQUEST
    /\ LET W == WellFormedLines(DecodedLog) IN
         /\ Len(W) = 3
         /\ FirstOf(W, IsPullRequestMerge) = 2
         /\ IsReleaseCommit(W[1])
         /\ DecorationOf(W[2]) = ""
    /\ ListItems(autogenerated[1]) = 1

\* C10: a stop commit whose header has no colon halts traversal all the
\* same: it is not among the unparsed entries, and neither it nor any later
\* commit is in the notes.
C10_StopWithoutCode ==
    Compiled =>
        LET W == WellFormedLines(DecodedLog)
            k == FirstStop(stop_point, W)
        IN (k <= Len(W) /\ HasNoColon(W[k])) =>
              /\ unparsed_commits = TrimmedHeadersOf(SelectSeq(SubSeq(W, 1, k - 1), HasNoColon))
              /\ ListItems(autogenerated[1]) = k - 1
              /\ ~Contains(SectionOf(autogenerated[1], UNCATEGORISED_HEADING),
                           list_item_symbol \o StripWs(HeaderOf(W[k])) \o "\n")

\* A run that stopped at a commit without a code, after an unparsed commit
\* and before a commit that is no stop point.
C10_Witness ==
    /\ Compiled
    /\ LET W == WellFormedLines(DecodedLog) IN
         /\ Len(W) = 3
         /\ FirstStop(stop_point, W) = 2
         /\ HasNoColon(W[2])
         /\ HasNoColon(W[1])
         /\ ~StopsAt(stop_point, W[3])
    /\ Len(unparsed_commits) = 1

\* The list items of entries, one line each.
RECURSIVE ListedLines(_, _)
ListedLines(symbol, entries) ==
    IF entries = <<>> THEN ""
    ELSE symbol \o Head(entries) \o "\n" \o ListedLines(symbol, Tail(entries))

\* C11: in a log that is text, a commit before the stop point whose header
\* has no colon raises no error and is not lost: its trimmed header is an unparsed entry, and the
\* notes list the unparsed entries, in log order, under "### Uncategorised!",
\* the last section of the notes.
C11_UnparsedUncategorised ==
    /\ Decodable => pc # "raised"
    /\ Compiled =>
          LET U == TrimmedHeadersOf(SelectSeq(Included, HasNoColon)) IN
          /\ unparsed_commits = U
          /\ IF U = <<>>
             THEN ~Contains(autogenerated[1], UNCATEGORISED_HEADING)
             ELSE EndsWith(autogenerated[1],
                           "\n\n" \o UNCATEGORISED_HEADING \o "\n"
                               \o ListedLines(list_item_symbol, U) \o "\n"
                               \o AUTO_GENERATION_END_INDICATOR)

\* A run that listed two different commits without a colon, the more recent
\* one first, after the section of a commit with a code.
C11_Witness ==
    /\ Compiled
    /\ Len(unparsed_commits) = 2
    /\ unparsed_commits[1] = "Another one"
    /\ unparsed_commits[2] = "This is not in the right format"
    /\ Len(parsed_commits) = 1
    /\ EndsWith(autogenerated[1],
                UNCATEGORISED_HEADING \o "\n"
                    \o list_item_symbol \o "Another one\n"
                    \o list_item_symbol \o "This is not in the right format\n\n"
                    \o AUTO_GENERATION_END_INDICATOR)

\* The codes the mapping m holds.
CodesOf(m) == {m[i][1] : i \in 1..Len(m)}

\* The message is an item of the section of the notes under heading.
ListedUnder(notes, heading, message) ==
    Contains(SectionOf(notes, heading), "\n" \o list_item_symbol \o message \o "\n")

\* C12: with every mapping, a parsed commit whose code the mapping does not
\* hold raises no error, and its message is listed under "### Other".
C12_UnknownCodeToOther ==
    /\ Decodable => pc # "raised"
    /\ Compiled =>
          \A i \in 1..Len(parsed_commits) :
              parsed_commits[i][1] \notin CodesOf(mapping) =>
                  ListedUnder(autogenerated[1], OTHER_HEADING, parsed_commits[i][2])

\* The commits before the stop point whose header has a colon.
IncludedWithCode == SelectSeq(Included, HasColon)

ColonCount(s) == Cardinality(Occurrences(s, ":"))

\* s without the characters that trimming removes.
RECURSIVE Squeezed(_)
Squeezed(s) ==
    IF s = "" THEN ""
    ELSE (IF Head(s) \in Whitespace THEN "" ELSE Head(s)) \o Squeezed(Tail(s))

\* C13: of a header with colons the code is the trimmed text before the
\* first colon and the message the trimmed rest, every later colon in its
\* place: code, ":" and message make the header again but for the trimmed
\* spaces, and "OPS: My message: something" is listed under Operations as
\* "My message: something".
C13_ExtraColonsKept ==
    Compiled =>
        /\ Len(parsed_commits) = Len(IncludedWithCode)
        /\ \A i \in 1..Len(parsed_commits) :
              LET h == HeaderOf(IncludedWithCode[i])
                  code == parsed_commits[i][1]
                  message == parsed_commits[i][2]
              IN /\ ColonCount(code) = 0
                 /\ ColonCount(message) = ColonCount(h) - 1
                 /\ StartsWith(StripWs(h), code)
                 /\ EndsWith(StripWs(h), message)
                 /\ Squeezed(code \o ":" \o message) = Squeezed(h)
                 /\ code = StripWs(code) /\ message = StripWs(message)
                 /\ h = "OPS: My message: something" =>
                       /\ code = "OPS"
                       /\ message = "My message: something"
                       /\ ListedUnder(autogenerated[1], "### Operations",
                                      "My message: something")

\* A run that listed a message with a colon under Operations, and another
\* with two colons whose code is followed by a space.
C13_Witness ==
    /\ Compiled
    /\ Len(parsed_commits) = 2
    /\ parsed_commits[1] = <<"fix", "a:b :c", "(HEAD -> main)">>
    /\ parsed_commits[2] = <<"OPS", "My message: something", "">>
    /\ ListedUnder(autogenerated[1], "### Operations", "My message: something")
    /\ ListedUnder(autogenerated[1], OTHER_HEADING, "a:b :c")

\* The sections that hold a message, in their order.
NonEmptySections == SelectSeq(categorised_commit_messages, LAMBDA b : b[2] # <<>>)

\* The sections as the notes show them: a heading, an item for each
\* message, a blank line.
RECURSIVE ShownSections(_)
ShownSections(sections) ==
    IF sections = <<>> THEN ""
    ELSE Head(sections)[1] \o "\n"
             \o ListedLines(list_item_symbol, Head(sections)[2]) \o "\n"
             \o ShownSections(Tail(sections))

\* C14: the notes are the start indicator, a line break, the header, a
\* blank line, then each section that holds a message, in the order of the
\* sections, as its heading, a line of list item symbol and message for each
\* message and a blank line, then the end indicator; a section without a
\* message shows nothing, and without any commit the notes are the start
\* indicator, the header, a blank line and the end indicator.
C14_NotesRendered ==
    Compiled =>
        /\ autogenerated[1] =
              AUTO_GENERATION_START_INDICATOR \o "\n" \o header \o "\n\n"
                  \o ShownSections(NonEmptySections)
                  \o AUTO_GENERATION_END_INDICATOR
        /\ \A i \in 1..Len(categorised_commit_messages) :
              categorised_commit_messages[i][2] = <<>> =>
                  ~Contains(autogenerated[1], categorised_commit_messages[i][1] \o "\n")
        /\ (parsed_commits = <<>> /\ unparsed_commits = <<>>) =>
              autogenerated[1] =
                  AUTO_GENERATION_START_INDICATOR \o "\n" \o header \o "\n\n"
                      \o AUTO_GENERATION_END_INDICATOR

\* A run with another header and list item symbol that rendered two of
\* four sections and left the empty ones out.
C14_Witness ==
    /\ Compiled
    /\ header = "# Release notes"
    /\ list_item_symbol = "* "
    /\ Len(NonEmptySections) = 2
    /\ Len(categorised_commit_messages) = 4
    /\ autogenerated[1] =
          AUTO_GENERATION_START_INDICATOR
              \o "\n# Release notes\n\n### Bug fixes\n* Fix a bug\n\n"
              \o "### New features\n* Add a feature\n\n"
              \o AUTO_GENERATION_END_INDICATOR

\* The previous notes P + start + M + end + S with the text around the
\* indicators moved to lines of its own.
OnOwnLines(s) ==
    SectionPrefix(s) \o "\n" \o AUTO_GENERATION_START_INDICATOR \o SectionBody(s)
        \o AUTO_GENERATION_END_INDICATOR \o "\n" \o SectionSuffix(s)

\* C15: the previous notes are split at the indicators wherever they stand:
\* text on the line of an indicator gives the result that the same text on
\* a line of its own gives, in which the text before and the text after
\* stand on lines of their own around the new notes; and a section that
\* is empty or a line break is replaced by the new notes.
C15_SplitIsTextual ==
    (Merged /\ HasOneSection(previous_notes[1])) =>
        LET P == SectionPrefix(previous_notes[1])
            M == SectionBody(previous_notes[1])
            S == SectionSuffix(previous_notes[1])
            N == autogenerated[1]
            at == Find(result[1], N, 1)
            after == at + Len(N)
        IN /\ result = Some(MergeNotes(OnOwnLines(previous_notes[1]), N))
           /\ at # 0
           /\ Strip(P, QuoteOrNewline) # "" =>
                 /\ at > 2
                 /\ CharAt(result[1], at - 1) = "\n"
                 /\ CharAt(result[1], at - 2) # "\n"
           /\ Strip(S, QuoteOrNewline) # "" =>
                 /\ CharAt(result[1], after) = "\n"
                 /\ CharAt(result[1], after + 1) \notin {"", "\n"}
           /\ M \in {"", "\n"} =>
                 /\ Cardinality(Occurrences(result[1], AUTO_GENERATION_START_INDICATOR)) = 1
                 /\ Cardinality(Occurrences(result[1], AUTO_GENERATION_END_INDICATOR)) = 1

\* A run on previous notes with text on the lines of both indicators and
\* nothing between them.
C15_Witness ==
    /\ Merged
    /\ previous_notes = Some("BLAH" \o AUTO_GENERATION_START_INDICATOR
                                 \o AUTO_GENERATION_END_INDICATOR \o "YUM")
    /\ result = Some("BLAH\n" \o autogenerated[1] \o "\nYUM")
    /\ parsed_commits # <<>>

\* The header of l is a merge of one commit into another: "Merge <ref> into
\* <ref>", without a code and without "#".
IsHashMerge(l) ==
    /\ StartsWith(HeaderOf(l), "Merge ")
    /\ Occurrences(HeaderOf(l), " into ") # {}
    /\ Occurrences(HeaderOf(l), "#") = {}
    /\ HasNoColon(l)

IsNoHashMerge(l) == ~IsHashMerge(l)

\* C16: a commit that merges one commit into another is ignored: traversal
\* does not stop at it, it is in no section of the notes, "### Uncategorised!"
\* included, and the commits before and after it are categorised as without it.
C16_HashMergeIgnored ==
    Compiled =>
        LET others == SelectSeq(Included, IsNoHashMerge) IN
        /\ parsed_commits = EntriesOf(SelectSeq(others, HasColon))
        /\ unparsed_commits = TrimmedHeadersOf(SelectSeq(others, HasNoColon))
        /\ \A i \in 1..Len(Included) :
              IsHashMerge(Included[i]) =>
                  /\ ~StopsAt(stop_point, Included[i])
                  /\ ~Contains(autogenerated[1], StripWs(HeaderOf(Included[i])))

\* The order of the sections of the notes under the default mapping.
DefaultSectionOrder ==
    <<"### New features", "### Enhancements", "### Fixes", "### Operations",
      "### Dependencies", "### Refactoring", "### Testing", "### Other",
      "### Reversions", "### Chores", "### Uncategorised!">>

\* Position of the heading in the notes, 0 when the notes have no such section.
HeadingAt(notes, heading) == Find(notes, "\n" \o heading \o "\n", 1)

\* C17: under the default mapping the sections of the notes stand in the
\* order New features, Enhancements, Fixes, Operations, Dependencies,
\* Refactoring, Testing, Other, Reversions, Chores, Uncategorised!, in
\* whatever order the commits are in the log.
C17_DefaultSectionOrder ==
    (Compiled /\ mapping = COMMIT_CODES_TO_HEADINGS_MAPPING) =>
        /\ \A i \in 1..Len(NonEmptySections) :
              \E k \in 1..Len(DefaultSectionOrder) :
                  NonEmptySections[i][1] = DefaultSectionOrder[k]
        /\ \A a \in 1..Len(DefaultSectionOrder) : \A b \in 1..Len(DefaultSectionOrder) :
              (/\ a < b
               /\ HeadingAt(autogenerated[1], DefaultSectionOrder[a]) # 0
               /\ HeadingAt(autogenerated[1], DefaultSectionOrder[b]) # 0) =>
                  HeadingAt(autogenerated[1], DefaultSectionOrder[a])
                      < HeadingAt(autogenerated[1], DefaultSectionOrder[b])

\* A run on the log of all the commits, the ones of the last sections
\* first, whose notes have the eleven sections.
C17_Witness ==
    /\ Compiled
    /\ mapping = COMMIT_CODES_TO_HEADINGS_MAPPING
    /\ git_log = ReversedFullLog
    /\ Len(NonEmptySections) = Len(DefaultSectionOrder)
    /\ HeadingAt(autogenerated[1], "### Enhancements") < HeadingAt(autogenerated[1], "### Fixes")
    /\ HeadingAt(autogenerated[1], OTHER_HEADING) < HeadingAt(autogenerated[1], "### Chores")

\* The text of s after its first start indicator.
AfterFirstStart(s) ==
    SubSeq(s, Min(Occurrences(s, AUTO_GENERATION_START_INDICATOR))
                  + Len(AUTO_GENERATION_START_INDICATOR), Len(s))

\* C18: with any number of indicators in the previous notes, the text
\* before the first start indicator and the text after the last end
\* indicator that follows it are kept as they are but for the trimmed
\* newlines, a start indicator in the text after included.
C18_PrefixAndSuffixKept ==
    (/\ Merged
     /\ Occurrences(previous_notes[1], AUTO_GENERATION_START_INDICATOR) # {}
     /\ Occurrences(AfterFirstStart(previous_notes[1]), AUTO_GENERATION_END_INDICATOR) # {}) =>
        LET P == BeforeSection(previous_notes[1])
            S == AfterSection(AfterFirstStart(previous_notes[1]))
        IN result = Some(Strip(Strip(P, Newline) \o "\n" \o autogenerated[1] \o "\n"
                                   \o Strip(S, Newline),
                               QuoteOrNewline))

\* The headings of the sections, in their order.
SectionHeadings == [i \in 1..Len(categorised_commit_messages) |->
                       categorised_commit_messages[i][1]]

\* The headings the mapping m declares, each at the place of its first
\* occurrence.
DeclaredHeadings(m) ==
    LET first == SelectSeq([i \in 1..Len(m) |-> i],
                           LAMBDA i : \A j \in 1..(i - 1) : m[j][2] # m[i][2])
    IN [k \in 1..Len(first) |-> m[first[k]][2]]

\* The sections of the notes stand in the order of the categorised mapping.
NotesFollowSections ==
    \A i \in 1..Len(NonEmptySections) : \A j \in 1..Len(NonEmptySections) :
        i < j => /\ HeadingAt(autogenerated[1], NonEmptySections[i][1]) # 0
                 /\ HeadingAt(autogenerated[1], NonEmptySections[i][1])
                       < HeadingAt(autogenerated[1], NonEmptySections[j][1])

\* C19 as claimed: the sections follow the declared order of the mapping,
\* and "### Other" and "### Uncategorised!" are the two last ones: no other
\* heading of the mapping stands after "### Other".
C19_Original ==
    Compiled =>
        /\ NotesFollowSections
        /\ \A i \in 1..Len(SectionHeadings) : \A j \in 1..Len(SectionHeadings) :
              (SectionHeadings[i] = OTHER_HEADING /\ i < j) =>
                  SectionHeadings[j] = UNCATEGORISED_HEADING

\* C19, amended: the sections are the headings of the mapping, each at the
\* place where the mapping first declares it, "### Other" among them, and
\* one last section "### Uncategorised!"; the notes show them in that order.
C19_SectionsFollowMapping ==
    Compiled =>
        /\ SectionHeadings = Append(DeclaredHeadings(mapping), UNCATEGORISED_HEADING)
        /\ NotesFollowSections

\* A run with a mapping that declares "### Other" between two headings,
\* whose notes show it there, before the last section.
C19_Witness ==
    /\ Compiled
    /\ mapping = MappingWithOther
    /\ SectionHeadings = <<"### Bug fixes", OTHER_HEADING, "### New features",
                           UNCATEGORISED_HEADING>>
    /\ Len(NonEmptySections) = 4
    /\ HeadingAt(autogenerated[1], OTHER_HEADING)
          < HeadingAt(autogenerated[1], "### New features")
    /\ HeadingAt(autogenerated[1], "### New features")
          < HeadingAt(autogenerated[1], UNCATEGORISED_HEADING)

\* The lines of the log that do not split into a header and a decoration.
Malformed(l) == ~WellFormed(l)
MalformedLines(log) == SelectSeq(SplitLines(log), Malformed)

\* l would be the stop point if its first part were a header and its last
\* part a decoration.
LooksLikeStop(sp, l) ==
    \/ sp = LAST_PULL_REQUEST /\ Occurrences(l, PULL_REQUEST_INDICATOR) # {}
    \/ sp = LAST_RELEASE /\ Occurrences(l, "tag") # {} /\ ReleaseTagged(l)

\* C20: in a log that is text, a line that does not split on "|" into two
\* parts is dropped: it raises no error, leaves no parsed or unparsed entry, is never taken for
\* the stop point, and the lines before and after it are processed as in
\* the log without it.
C20_MalformedLinesDropped ==
    /\ Decodable => pc # "raised"
    /\ Compiled =>
          LET W == WellFormedLines(DecodedLog)
              without == ParseCommitMessages(stop_point, Join("\n", W))
          IN /\ Len(parsed_commits) + Len(unparsed_commits) = FirstStop(stop_point, W) - 1
             /\ parsed_commits = without.parsed
             /\ unparsed_commits = without.unparsed
             /\ \A i \in 1..Len(MalformedLines(DecodedLog)) :
                   LET l == MalformedLines(DecodedLog)[i] IN
                   /\ \A j \in 1..Len(parsed_commits) :
                         ~Contains(l, parsed_commits[j][2]) \/ parsed_commits[j][2] = ""
                   /\ \A j \in 1..Len(unparsed_commits) : ~Contains(l, unparsed_commits[j])

\* A run whose log has a line without separator and a line with two, one
\* of which would be the stop point as a commit, and a commit after them
\* that is in the notes.
C20_Witness ==
    /\ Compiled
    /\ Len(SplitLines(DecodedLog)) = 3
    /\ Len(MalformedLines(DecodedLog)) = 2
    /\ \E i \in 1..2 : Occurrences(MalformedLines(DecodedLog)[i], "|") = {}
    /\ \E i \in 1..2 : LooksLikeStop(stop_point, MalformedLines(DecodedLog)[i])
    /\ Malformed(SplitLines(DecodedLog)[1])
    /\ Malformed(SplitLines(DecodedLog)[2])
    /\ Len(parsed_commits) + Len(unparsed_commits) = 1

\* The heading the mapping m gives the code, "### Other" for a code it
\* does not hold.
HeadingFor(m, code) ==
    IF code \in CodesOf(m)
    THEN m[CHOOSE i \in 1..Len(m) : m[i][1] = code][2]
    ELSE OTHER_HEADING

\* The messages of the entries whose code goes under heading, in their order.
MessagesUnder(m, entries, heading) ==
    LET under == SelectSeq(entries, LAMBDA e : HeadingFor(m, e[1]) = heading)
    IN [k \in 1..Len(under) |-> under[k][2]]

\* The number of messages of the sections.
RECURSIVE TotalMessages(_)
TotalMessages(sections) ==
    IF sections = <<>> THEN 0
    ELSE Len(Head(sections)[2]) + TotalMessages(Tail(sections))

\* The lines of the notes that are list items: the lines after the header
\* that are not blank, not a heading and not the end indicator.
ItemLines(notes) ==
    LET lines == SplitLines(notes) IN
    {k \in 3..Len(lines) :
        /\ lines[k] # ""
        /\ lines[k] # AUTO_GENERATION_END_INDICATOR
        /\ \A i \in 1..Len(SectionHeadings) : lines[k] # SectionHeadings[i]
        /\ StartsWith(lines[k], list_item_symbol)}

\* C21: under the default mapping each section holds the messages of the
\* commits before the stop point whose code maps to its heading, "### Other"
\* those of the codes the mapping does not hold too, in log order: each
\* commit is in one section, once, and the notes have as many list items
\* as there are parsed and unparsed entries.
C21_BucketsExact ==
    (Compiled /\ mapping = COMMIT_CODES_TO_HEADINGS_MAPPING) =>
        /\ \A i \in 1..Len(categorised_commit_messages) :
              categorised_commit_messages[i][2] =
                  IF SectionHeadings[i] = UNCATEGORISED_HEADING
                  THEN TrimmedHeadersOf(SelectSeq(Included, HasNoColon))
                  ELSE MessagesUnder(COMMIT_CODES_TO_HEADINGS_MAPPING,
                                     EntriesOf(IncludedWithCode), SectionHeadings[i])
        /\ TotalMessages(categorised_commit_messages) = Len(Included)
        /\ Len(parsed_commits) + Len(unparsed_commits) = Len(Included)
        /\ Cardinality(ItemLines(autogenerated[1])) = Len(Included)

\* A run on the log of all the commits whose "### Other" section holds the
\* six messages of the codes MRG, WIP, DOC, STY and of the two codes the
\* mapping does not hold, in log order.
C21_Witness ==
    /\ Compiled
    /\ mapping = COMMIT_CODES_TO_HEADINGS_MAPPING
    /\ git_log = FullLog
    /\ list_item_symbol = DEFAULT_LIST_ITEM_SYMBOL
    /\ \E i \in 1..Len(categorised_commit_messages) :
          /\ SectionHeadings[i] = OTHER_HEADING
          /\ categorised_commit_messages[i][2] =
                <<"Merge main into feature", "Start something", "Describe it",
                  "Format it", "An unrecognised commit code", "Fix in lower case">>
    /\ Cardinality(ItemLines(autogenerated[1])) = Len(SectionLineSeq)

\* The collaborator was invoked in this run.
Invoked(name) == \E i \in 1..Len(calls) : calls[i] = name

\* C22: in a run each collaborator is invoked at most once, the description
\* source before the log source; a stop point that is not valid ends the
\* run before either is queried; the description source is queried only
\* when a pull request URL is given; and the log source is not queried when
\* the previous notes hold the skip indicator.
C22_CollaboratorOrder ==
    /\ [](/\ calls \in {<<>>, <<"description">>, <<"log">>, <<"description", "log">>}
          /\ (pc = "raised" /\ error = "ValueError") => calls = <<>>
          /\ pc \in {"new", "constructed"} => ~Invoked("log")
          /\ (/\ pc = "returned"
              /\ previous_notes # None
              /\ Occurrences(previous_notes[1], SKIP_INDICATOR) # {}) => ~Invoked("log")
          /\ (/\ pc = "returned"
              /\ \/ previous_notes = None
                 \/ Occurrences(previous_notes[1], SKIP_INDICATOR) = {}) => Invoked("log"))
    /\ [][\A sp \in StopPointInputs, url \in UrlInputs :
            Construct(sp, url) =>
                /\ calls = <<>>
                /\ Invoked("description")' =>
                      /\ url \notin {None, Some("")}
                      /\ pc' = "constructed"
                /\ (url = Some(PULL_REQUEST_URL) /\ pc' = "constructed") =>
                      calls' = <<"description">>]_vars

\* A run with a pull request URL that queried the description source and
\* then the log source.
C22_Witness ==
    /\ pc = "returned"
    /\ calls = <<"description", "log">>
    /\ previous_notes = Some("")
    /\ stop_point = LAST_PULL_REQUEST
    /\ result = autogenerated

\* s holds a start indicator with no end indicator after the first one,
\* and no skip indicator.
StartWithoutEnd(s) ==
    /\ Occurrences(s, AUTO_GENERATION_START_INDICATOR) # {}
    /\ Occurrences(AfterFirstStart(s), AUTO_GENERATION_END_INDICATOR) = {}
    /\ Occurrences(s, SKIP_INDICATOR) = {}

\* C23: with a start indicator and no end indicator after it (and no skip
\* indicator) in the previous notes, nothing is dropped: the result is the
\* text before the first start indicator, the new notes, and all the text
\* after the first start indicator as it is, each trimmed of its newlines
\* and the whole stripped of leading and trailing quotes and newlines.
C23_OpenSectionKept ==
    (Merged /\ StartWithoutEnd(previous_notes[1])) =>
        LET P == BeforeSection(previous_notes[1])
            S == AfterFirstStart(previous_notes[1])
        IN result = Some(Strip(Strip(P, Newline) \o "\n" \o autogenerated[1] \o "\n"
                                   \o Strip(S, Newline),
                               QuoteOrNewline))

====
